---- MODULE Spec2Model ----
(***************************************************************************)
(* Round-based skill-tiered matchmaking (src/src/matchmaking.ts).          *)
(*                                                                         *)
(* Numbers.  Ratings (mu, sigma, ordinal) are held in twelfths of a rating *)
(* point, so that the prior mu = 25 is 300, the prior sigma = 25/3 is 100, *)
(* the tier widths 2.0 / 2.5 / 3.0 are 24 / 30 / 36 and the mean of two    *)
(* ordinals is an integer.  Costs and probabilities are held in            *)
(* thousandths.                                                            *)
(***************************************************************************)
EXTENDS Integers, Sequences, FiniteSets, TLC

VARIABLES
    activePlayers,  \* the roster: the array exported by ./active-players
    ranks,          \* data/ranks.json: results.players
    matchesFile,    \* data/matches.json: the saved previous result, or Missing
    historyFile,    \* data/recent-matches.json: the match history, or Missing
    result,         \* what the last call of createMatchmaking returned, or
                    \* NoResult
    call,           \* what that call read and logged: its locals
    rounds,         \* number of rounds saved so far
    tierInput,      \* argument of the last call of createSkillGroups
    tierOutput      \* what that call returned

vars == <<activePlayers, ranks, matchesFile, historyFile, result, call, rounds,
          tierInput, tierOutput>>

-----------------------------------------------------------------------------
(* Bounds of the model *)

\* longest roster
MaxRoster == 4

\* rounds saved in one behaviour
MaxRounds == 3

\* longest list handed to the tier builder on its own
MaxTierInput == 7

\* rounds recorded in one behaviour of the history store on its own: two more
\* than the 45 entries a history of 3 lookback rounds keeps
MaxRecorded == 47

\* longest list of players the pairing cost is computed for on its own
MaxCostPlayers == 6

\* longest match log processMatches is run on
MaxMatchLog == 2

\* longest list of players of mixed uncertainty the pairing cost is computed for
MaxRatedCostPlayers == 4

\* longest ladder of players the tiers are labelled for
MaxLadder == 12

\* most rounds saved one after the other on one roster
MaxSavedRounds == 4

\* longest roster the ties are followed on
MaxTieRoster == 5

-----------------------------------------------------------------------------
(* Generic helpers *)

Range(s) == {s[i] : i \in 1..Len(s)}

Abs(x) == IF x < 0 THEN -x ELSE x

RECURSIVE SeqFilter(_, _)
\* Array.prototype.filter with the set of kept values given by keep
SeqFilter(s, keep) ==
    IF s = <<>> THEN <<>>
    ELSE IF Head(s) \in keep THEN <<Head(s)>> \o SeqFilter(Tail(s), keep)
         ELSE SeqFilter(Tail(s), keep)

RemoveAt(s, i) == SubSeq(s, 1, i - 1) \o SubSeq(s, i + 1, Len(s))

\* number of positions of s that hold x
Count(s, x) == Cardinality({i \in 1..Len(s) : s[i] = x})

NoDuplicates(s) == \A i, j \in 1..Len(s) : s[i] = s[j] => i = j

\* indices 1..n of keys in the order Array.prototype.sort((a, b) => key(b) - key(a))
\* leaves them: descending by key, equal keys in their original order (the
\* sort is stable)
RECURSIVE SortPermDesc(_, _)
SortPermDesc(keys, n) ==
    IF n = 0 THEN <<>>
    ELSE LET p   == SortPermDesc(keys, n - 1)
             pos == Cardinality({i \in 1..Len(p) : keys[p[i]] >= keys[n]})
         IN  SubSeq(p, 1, pos) \o <<n>> \o SubSeq(p, pos + 1, Len(p))

-----------------------------------------------------------------------------
(* Ratings *)

\* the identifiers a roster is drawn from
PlayerNames == <<"A", "B", "C", "D">>

Players == Range(PlayerNames)

\* openskill rating(): the prior, mu = 25 and sigma = 25/3
DefaultMu == 300

DefaultSigma == 100

\* interface PlayerRating; ordinal(rating) = mu - 3 sigma is what
\* processMatches stores
PlayerRating(name, mu, sigma) ==
    [player |-> name, mu |-> mu, sigma |-> sigma, ordinal |-> mu - 3 * sigma]

\* the stored ratings a snapshot gives a player: none, or one of these
\* (mu, sigma): (27, 8), (30, 2)
StoredRatings == {<<324, 96>>, <<360, 24>>}

\* results.players as processMatches writes it: the rated players in
\* descending ordinal order
RanksOf(assign) ==
    LET rated == SeqFilter(PlayerNames, {p \in Players : assign[p] # <<>>})
        recs  == [i \in 1..Len(rated) |->
                     PlayerRating(rated[i], assign[rated[i]][1], assign[rated[i]][2])]
        perm  == SortPermDesc([i \in 1..Len(recs) |-> recs[i].ordinal], Len(recs))
    IN  [i \in 1..Len(recs) |-> recs[perm[i]]]

\* existingRatings.has(playerName)
HasRating(rks, name) == \E i \in 1..Len(rks) : rks[i].player = name

\* existingRatings.get(playerName): Map.set keeps the last entry of a name
GetRating(rks, name) ==
    rks[CHOOSE i \in 1..Len(rks) :
            /\ rks[i].player = name
            /\ \A j \in 1..Len(rks) : rks[j].player = name => j <= i]

\* the ratings of the stored players that are active, in stored order: a player
\* without a stored rating is left out
StoredActiveRatings(roster, rks) ==
    LET kept == {i \in 1..Len(rks) : rks[i].player \in Range(roster)}
        idx  == SortPermDesc([i \in 1..Len(rks) |-> IF i \in kept THEN 1 ELSE 0], Len(rks))
    IN  [i \in 1..Cardinality(kept) |-> rks[idx[i]]]

\* activePlayers.map(...): the stored rating, or the default rating with
\* ordinal 0 for a player that has none
ActivePlayerRatings(roster, rks) ==
    [i \in 1..Len(roster) |->
        IF HasRating(rks, roster[i]) THEN GetRating(rks, roster[i])
        ELSE [player |-> roster[i], mu |-> DefaultMu, sigma |-> DefaultSigma,
              ordinal |-> 0]]

-----------------------------------------------------------------------------
(* Skill Tier Builder *)

\* Maximum ordinal difference within a group: 3.0
MAX_GROUP_RANGE == 36

\* Maximum players per group
MAX_GROUP_SIZE == 6

\* groupStartOrdinal > 15
EliteOrdinal == 180

\* adaptiveMaxRange = 2.0
EliteRange == 24

\* groupStartOrdinal > 5
AdvancedOrdinal == 60

\* adaptiveMaxRange = 2.5
AdvancedRange == 30

starCitizenRanks ==
    << "UEE Navy Vanguard", "Fleet Commander", "Wing Commander", "Squadron Ace",
       "Strike Pilot", "Mercenary Pilot", "Freelancer Pilot", "Civilian Pilot",
       "Rookie Pilot", "Cadet" >>

\* Number.prototype.toFixed(1) of an ordinal: tenths of a point, rounded
ToFixed1(v) ==
    IF v >= 0 THEN (10 * v + 6) \div 12 ELSE -((10 * (-v) + 6) \div 12)

SeqMax(s) == CHOOSE x \in Range(s) : \A y \in Range(s) : y <= x

SeqMin(s) == CHOOSE x \in Range(s) : \A y \in Range(s) : x <= y

\* the group with every rank past the list called "Civilian Pilot", without a
\* number
createGroupUnnumbered(players, groupIndex) ==
    LET ords       == [i \in 1..Len(players) |-> players[i].ordinal]
        maxOrdinal == SeqMax(ords)
        minOrdinal == SeqMin(ords)
        rank       == IF groupIndex < Len(starCitizenRanks)
                      THEN <<starCitizenRanks[groupIndex + 1]>>
                      ELSE <<"Civilian Pilot">>
    IN  [name       |-> <<rank, ToFixed1(minOrdinal), ToFixed1(maxOrdinal)>>,
         players    |-> players,
         minOrdinal |-> minOrdinal,
         maxOrdinal |-> maxOrdinal]

\* groupIndex counts from 0; the name is the rank (numbered past the list)
\* followed by the printed min and max
createGroup(players, groupIndex) ==
    LET ords       == [i \in 1..Len(players) |-> players[i].ordinal]
        maxOrdinal == SeqMax(ords)
        minOrdinal == SeqMin(ords)
        rank       == IF groupIndex < Len(starCitizenRanks)
                      THEN <<starCitizenRanks[groupIndex + 1]>>
                      ELSE <<"Civilian Pilot", groupIndex - Len(starCitizenRanks) + 1>>
    IN  [name       |-> <<rank, ToFixed1(minOrdinal), ToFixed1(maxOrdinal)>>,
         players    |-> players,
         minOrdinal |-> minOrdinal,
         maxOrdinal |-> maxOrdinal]

\* the same range whatever the group starts at
FixedMaxRange(groupStartOrdinal) == MAX_GROUP_RANGE

adaptiveMaxRange(groupStartOrdinal) ==
    IF groupStartOrdinal > EliteOrdinal THEN EliteRange
    ELSE IF groupStartOrdinal > AdvancedOrdinal THEN AdvancedRange
    ELSE MAX_GROUP_RANGE

\* the test of the range alone, without the test of the size
StartsNewGroupByRange(currentGroup, player) ==
    currentGroup[1].ordinal - player.ordinal > adaptiveMaxRange(currentGroup[1].ordinal)

\* whether the walk closes the current group before this player
StartsNewGroup(currentGroup, player) ==
    \/ currentGroup[1].ordinal - player.ordinal > adaptiveMaxRange(currentGroup[1].ordinal)
    \/ Len(currentGroup) >= MAX_GROUP_SIZE

\* the loop of createSkillGroups from position i on
RECURSIVE GroupWalk(_, _, _, _)
GroupWalk(sortedPlayers, i, groups, currentGroup) ==
    IF i > Len(sortedPlayers)
    THEN IF Len(currentGroup) > 0
         THEN Append(groups, createGroup(currentGroup, Len(groups)))
         ELSE groups
    ELSE LET player == sortedPlayers[i]
         IN  IF Len(currentGroup) = 0
             THEN GroupWalk(sortedPlayers, i + 1, groups, <<player>>)
             ELSE IF StartsNewGroup(currentGroup, player)
                  THEN GroupWalk(sortedPlayers, i + 1,
                                 Append(groups, createGroup(currentGroup, Len(groups))),
                                 <<player>>)
                  ELSE GroupWalk(sortedPlayers, i + 1, groups,
                                 Append(currentGroup, player))

\* the list as it came, not sorted
Unsorted(players) == players

\* [...players].sort((a, b) => b.ordinal - a.ordinal)
SortByOrdinal(players) ==
    LET perm == SortPermDesc([i \in 1..Len(players) |-> players[i].ordinal],
                             Len(players))
    IN  [i \in 1..Len(players) |-> players[perm[i]]]

createSkillGroups(players) ==
    LET sortedPlayers == SortByOrdinal(players)
    IN  IF Len(sortedPlayers) = 0 THEN <<>>
        ELSE GroupWalk(sortedPlayers, 1, <<>>, <<>>)

\* the index (from 1) of the first group that holds the player, 0 for null
getPlayerGroup(playerName, groups) ==
    LET holding == {g \in 1..Len(groups) :
                       \E k \in 1..Len(groups[g].players) :
                           groups[g].players[k].player = playerName}
    IN  IF holding = {} THEN 0
        ELSE CHOOSE g \in holding : \A h \in holding : g <= h

\* skillGroups.findIndex(g => g.name === name), counted from 1, 0 for -1
FindGroupIndex(groups, name) ==
    LET named == {g \in 1..Len(groups) : groups[g].name = name}
    IN  IF named = {} THEN 0
        ELSE CHOOSE g \in named : \A h \in named : g <= h

-----------------------------------------------------------------------------
(* Match History Store *)

\* a file that does not exist
Missing == [exists |-> FALSE]

\* lookbackRounds of a fresh history
DefaultLookbackRounds == 3

\* Assume ~15 matches per round
MatchesPerRound == 15

\* a file whose content JSON.parse rejects
Corrupt == [exists |-> TRUE, parses |-> FALSE]

\* a default history with nothing to look back on
loadMatchHistoryNoLookback(file) ==
    IF file = Missing \/ file = Corrupt
    THEN [matches |-> <<>>, lookbackRounds |-> 0]
    ELSE file

\* the stored history; the default one when the file is missing or the read
\* or the parse throws
loadMatchHistory(file) ==
    IF file = Missing \/ file = Corrupt
    THEN [matches |-> <<>>, lookbackRounds |-> DefaultLookbackRounds]
    ELSE file

\* hasRecentMatch with the first of the two comparisons only
hasRecentMatchAsStored(player1, player2, history) ==
    \E k \in 1..Len(history.matches) :
        history.matches[k].player1 = player1 /\ history.matches[k].player2 = player2

hasRecentMatch(player1, player2, history) ==
    \E k \in 1..Len(history.matches) :
        \/ history.matches[k].player1 = player1 /\ history.matches[k].player2 = player2
        \/ history.matches[k].player1 = player2 /\ history.matches[k].player2 = player1

\* the whole list, whatever n
KeepAll(s, n) == s

\* updatedMatches.slice(0, maxMatches)
Slice0(s, n) == SubSeq(s, 1, IF n < Len(s) THEN n ELSE Len(s))

\* the new matches put behind the existing ones
updateMatchHistoryAppending(newMatches, history, currentTimestamp) ==
    LET newHistoricalMatches ==
            [k \in 1..Len(newMatches) |->
                [player1   |-> newMatches[k].player1,
                 player2   |-> newMatches[k].player2,
                 timestamp |-> currentTimestamp]]
        updatedMatches == history.matches \o newHistoricalMatches
        maxMatches     == history.lookbackRounds * MatchesPerRound
    IN  [matches        |-> Slice0(updatedMatches, maxMatches),
         lookbackRounds |-> history.lookbackRounds]

updateMatchHistory(newMatches, history, currentTimestamp) ==
    LET newHistoricalMatches ==
            [k \in 1..Len(newMatches) |->
                [player1   |-> newMatches[k].player1,
                 player2   |-> newMatches[k].player2,
                 timestamp |-> currentTimestamp]]
        updatedMatches == newHistoricalMatches \o history.matches
        maxMatches     == history.lookbackRounds * MatchesPerRound
    IN  [matches        |-> Slice0(updatedMatches, maxMatches),
         lookbackRounds |-> history.lookbackRounds]

-----------------------------------------------------------------------------
(* Pairing Cost Function *)

\* openskill predictDraw([[a], [b]]) in thousandths, by |mu_a - mu_b| and
\* sigma_a^2 + sigma_b^2, for the ratings of this model:
\* 2 Phi((m - d) / c) + 2 Phi((m + d) / c) - 2 with beta = 25/6,
\* m = sqrt(2) beta Phi^-1(3/4) and c = sqrt(2 beta^2 + sigma_a^2 + sigma_b^2)
DrawTable ==
    {
      <<0, 20000, 474>>, <<24, 20000, 469>>, <<25, 20000, 468>>,
      <<35, 20000, 463>>, <<36, 20000, 462>>, <<40, 20000, 460>>,
      <<60, 20000, 442>>, <<80, 20000, 419>>, <<84, 20000, 413>>,
      <<96, 20000, 397>>, <<109, 20000, 377>>, <<120, 20000, 359>>,
      <<144, 20000, 317>>, <<145, 20000, 315>>, <<160, 20000, 289>>,
      <<180, 20000, 253>>, <<192, 20000, 232>>, <<200, 20000, 218>>,
      <<205, 20000, 210>>, <<216, 20000, 192>>, <<240, 20000, 155>>,
      <<280, 20000, 104>>, <<320, 20000, 65>>, <<360, 20000, 38>>,
      <<400, 20000, 21>>, <<440, 20000, 11>>, <<480, 20000, 5>>,
      <<520, 20000, 2>>, <<24, 19216, 476>>, <<0, 18432, 489>>,
      <<0, 10576, 595>>, <<60, 10576, 533>>, <<228, 10576, 121>>,
      <<240, 10576, 102>>, <<468, 10576, 1>>, <<36, 9792, 585>>,
      <<0, 1152, 914>>, <<24, 1152, 877>>, <<192, 1152, 64>>,
      <<216, 1152, 31>>, <<228, 1152, 21>>, <<240, 1152, 14>> }

\* the probability that the match is not drawn
predictDecided(a, b) ==
    LET d == Abs(a.mu - b.mu)
        v == a.sigma * a.sigma + b.sigma * b.sigma
    IN  1000 - (CHOOSE t \in DrawTable : t[1] = d /\ t[2] = v)[3]

predictDraw(a, b) ==
    LET d == Abs(a.mu - b.mu)
        v == a.sigma * a.sigma + b.sigma * b.sigma
    IN  (CHOOSE t \in DrawTable : t[1] = d /\ t[2] = v)[3]

RECENT_MATCH_PENALTY == 100

\* the penalty without the escalation past a gap of 4
crossGroupPenaltyCapped(groupGap) ==
    IF groupGap = 1 THEN 150
    ELSE IF groupGap = 2 THEN 350
    ELSE IF groupGap = 3 THEN 600
    ELSE 800

crossGroupPenalty(groupGap) ==
    IF groupGap = 1 THEN 150
    ELSE IF groupGap = 2 THEN 350
    ELSE IF groupGap = 3 THEN 600
    ELSE 800 + (groupGap - 4) * 200

\* the penalty with the gap taken without Math.abs
GroupPenaltySigned(p1, p2, skillGroups) ==
    LET player1Group == getPlayerGroup(p1.player, skillGroups)
        player2Group == getPlayerGroup(p2.player, skillGroups)
    IN  IF /\ player1Group # 0
           /\ player2Group # 0
           /\ skillGroups[player1Group].name # skillGroups[player2Group].name
        THEN crossGroupPenalty(
                 FindGroupIndex(skillGroups, skillGroups[player1Group].name)
                     - FindGroupIndex(skillGroups, skillGroups[player2Group].name))
        ELSE 0

\* the penalty for two players whose groups have different names, else 0
GroupPenalty(p1, p2, skillGroups) ==
    LET player1Group == getPlayerGroup(p1.player, skillGroups)
        player2Group == getPlayerGroup(p2.player, skillGroups)
    IN  IF /\ player1Group # 0
           /\ player2Group # 0
           /\ skillGroups[player1Group].name # skillGroups[player2Group].name
        THEN LET player1GroupIndex ==
                     FindGroupIndex(skillGroups, skillGroups[player1Group].name)
                 player2GroupIndex ==
                     FindGroupIndex(skillGroups, skillGroups[player2Group].name)
             IN  crossGroupPenalty(Abs(player1GroupIndex - player2GroupIndex))
        ELSE 0

\* no penalty for a recent match
NoRecentPenalty(p1, p2, matchHistory) == 0

\* a penalty for a recent match that is larger than any difference of costs
ProhibitiveRecentPenalty(p1, p2, matchHistory) ==
    IF hasRecentMatch(p1.player, p2.player, matchHistory) THEN 1000 ELSE 0

RecentPenalty(p1, p2, matchHistory) ==
    IF hasRecentMatch(p1.player, p2.player, matchHistory)
    THEN RECENT_MATCH_PENALTY ELSE 0

\* the draw probability itself taken as the cost
DrawAsCost(p1, p2, skillGroups, matchHistory) ==
    predictDraw(p1, p2)
        + GroupPenalty(p1, p2, skillGroups)
        + RecentPenalty(p1, p2, matchHistory)

\* the cost the inner loop computes for a player and a candidate
Cost(p1, p2, skillGroups, matchHistory) ==
    (1000 - predictDraw(p1, p2))
        + GroupPenalty(p1, p2, skillGroups)
        + RecentPenalty(p1, p2, matchHistory)

\* RECENT_MATCH_PENALTY of the earlier engine without skill groups: 0.2
NAIVE_RECENT_MATCH_PENALTY == 200

NaiveRecentPenalty(p1, p2, matchHistory) ==
    IF hasRecentMatch(p1.player, p2.player, matchHistory)
    THEN NAIVE_RECENT_MATCH_PENALTY ELSE 0

\* the cost the inner loop of the earlier engine computes
NaiveCost(p1, p2, matchHistory) ==
    (1000 - predictDraw(p1, p2)) + NaiveRecentPenalty(p1, p2, matchHistory)

-----------------------------------------------------------------------------
(* Odd-Player Carry-Over Policy *)

\* matches.json never read: nobody sat out before
NoPreviouslyUnmatched(file) == <<>>

\* previousResults.unmatchedPlayers || [] of data/matches.json
previouslyUnmatchedOf(file) ==
    IF file = Missing THEN <<>> ELSE file.unmatchedPlayers

\* the reduce with the comparison turned round: the least sigma
RECURSIVE ReduceMinSigma(_, _, _)
ReduceMinSigma(list, k, prev) ==
    IF k > Len(list) THEN prev
    ELSE ReduceMinSigma(list, k + 1,
                        IF list[k].sigma < prev.sigma THEN list[k] ELSE prev)

\* list.reduce((prev, current) => current.rating.sigma > prev.rating.sigma
\*                                    ? current : prev)
RECURSIVE ReduceMaxSigma(_, _, _)
ReduceMaxSigma(list, k, prev) ==
    IF k > Len(list) THEN prev
    ELSE ReduceMaxSigma(list, k + 1,
                        IF list[k].sigma > prev.sigma THEN list[k] ELSE prev)

\* the first of the list, whatever its sigma
FirstOf(list) == list[1]

MostUncertain(list) == ReduceMaxSigma(list, 2, list[1])

\* the filter that drops nobody
allPlayersToMatch(playersToMatch, previouslyUnmatched) == playersToMatch

\* playersToMatch.filter(p => !previouslyUnmatched.includes(p.player))
RECURSIVE nonPreviouslyUnmatchedOf(_, _)
nonPreviouslyUnmatchedOf(playersToMatch, previouslyUnmatched) ==
    IF playersToMatch = <<>> THEN <<>>
    ELSE LET rest == nonPreviouslyUnmatchedOf(Tail(playersToMatch), previouslyUnmatched)
         IN  IF Head(playersToMatch).player \in Range(previouslyUnmatched)
             THEN rest ELSE <<Head(playersToMatch)>> \o rest

\* the most uncertain player, whoever sat out before
playerToRemoveIgnoringPrevious(playersToMatch, previouslyUnmatched) ==
    ReduceMaxSigma(playersToMatch, 2, playersToMatch[1])

\* the player an odd roster leaves out
playerToRemoveOf(playersToMatch, previouslyUnmatched) ==
    LET nonPreviouslyUnmatched ==
            nonPreviouslyUnmatchedOf(playersToMatch, previouslyUnmatched)
    IN  IF Len(nonPreviouslyUnmatched) > 0
        THEN MostUncertain(nonPreviouslyUnmatched)
        ELSE MostUncertain(playersToMatch)

\* playersToMatch.findIndex(p => p.player === name), counted from 1
FindPlayerIndex(list, name) ==
    CHOOSE i \in 1..Len(list) :
        /\ list[i].player = name
        /\ \A j \in 1..Len(list) : list[j].player = name => i <= j

-----------------------------------------------------------------------------
(* Greedy Pairing Engine *)

\* the conservative skill estimate the players are sorted by
Conservative(p) == p.mu - 3 * p.sigma

\* playersToMatch.map((player, index) => ({player, originalIndex})).sort(...)
SortedEntries(playersToMatch) ==
    LET perm == SortPermDesc([i \in 1..Len(playersToMatch) |->
                                 Conservative(playersToMatch[i])],
                             Len(playersToMatch))
    IN  [i \in 1..Len(playersToMatch) |->
            [player |-> playersToMatch[perm[i]], originalIndex |-> perm[i]]]

\* no candidate found yet
NoMatch == [j |-> 0, cost |-> 0]

\* the inner loop without the test that the candidate is not yet paired
RECURSIVE BestMatchAmongAll(_, _, _, _, _, _, _)
BestMatchAmongAll(sortedPlayers, i, j, paired, bestMatch, skillGroups, matchHistory) ==
    IF j > Len(sortedPlayers) THEN bestMatch
    ELSE LET cost == Cost(sortedPlayers[i].player, sortedPlayers[j].player,
                          skillGroups, matchHistory)
         IN  BestMatchAmongAll(sortedPlayers, i, j + 1, paired,
                               IF bestMatch.j = 0 \/ cost < bestMatch.cost
                               THEN [j |-> j, cost |-> cost] ELSE bestMatch,
                               skillGroups, matchHistory)

\* the inner loop taking the first candidate that is not yet paired, whatever
\* its cost
RECURSIVE FirstUnpairedFrom(_, _, _, _, _, _, _)
FirstUnpairedFrom(sortedPlayers, i, j, paired, bestMatch, skillGroups, matchHistory) ==
    IF j > Len(sortedPlayers) THEN bestMatch
    ELSE IF sortedPlayers[j].originalIndex \in paired
    THEN FirstUnpairedFrom(sortedPlayers, i, j + 1, paired, bestMatch,
                           skillGroups, matchHistory)
    ELSE [j |-> j, cost |-> Cost(sortedPlayers[i].player, sortedPlayers[j].player,
                                 skillGroups, matchHistory)]

\* the inner loop with cost <= bestMatch.cost: the last candidate of least cost
RECURSIVE BestMatchLastOfTies(_, _, _, _, _, _, _)
BestMatchLastOfTies(sortedPlayers, i, j, paired, bestMatch, skillGroups, matchHistory) ==
    IF j > Len(sortedPlayers) THEN bestMatch
    ELSE IF sortedPlayers[j].originalIndex \in paired
    THEN BestMatchLastOfTies(sortedPlayers, i, j + 1, paired, bestMatch,
                             skillGroups, matchHistory)
    ELSE LET cost == Cost(sortedPlayers[i].player, sortedPlayers[j].player,
                          skillGroups, matchHistory)
         IN  BestMatchLastOfTies(sortedPlayers, i, j + 1, paired,
                                 IF bestMatch.j = 0 \/ cost <= bestMatch.cost
                                 THEN [j |-> j, cost |-> cost] ELSE bestMatch,
                                 skillGroups, matchHistory)

\* the inner loop from candidate j on: the first candidate of least cost
RECURSIVE BestMatchFrom(_, _, _, _, _, _, _)
BestMatchFrom(sortedPlayers, i, j, paired, bestMatch, skillGroups, matchHistory) ==
    IF j > Len(sortedPlayers) THEN bestMatch
    ELSE IF sortedPlayers[j].originalIndex \in paired
    THEN BestMatchFrom(sortedPlayers, i, j + 1, paired, bestMatch,
                       skillGroups, matchHistory)
    ELSE LET cost == Cost(sortedPlayers[i].player, sortedPlayers[j].player,
                          skillGroups, matchHistory)
         IN  BestMatchFrom(sortedPlayers, i, j + 1, paired,
                           IF bestMatch.j = 0 \/ cost < bestMatch.cost
                           THEN [j |-> j, cost |-> cost] ELSE bestMatch,
                           skillGroups, matchHistory)

\* the match with the confidence taken from the sum of the two sigmas instead
\* of their mean
MakeMatchSumConfidence(player1, player2) ==
    [player1         |-> player1.player,
     player2         |-> player2.player,
     skillDifference |-> Abs(player1.ordinal - player2.ordinal),
     averageSkill    |-> (player1.ordinal + player2.ordinal) \div 2,
     confidence      |-> 12000 \div (player1.sigma + player2.sigma)]

\* matches.push({...}): ordinals are in twelfths, so their sum is even in
\* every rating the model uses and the mean is exact; the confidence
\* 1 / ((sigma1 + sigma2) / 2) is held in thousandths, rounded down
MakeMatch(player1, player2) ==
    [player1         |-> player1.player,
     player2         |-> player2.player,
     skillDifference |-> Abs(player1.ordinal - player2.ordinal),
     averageSkill    |-> (player1.ordinal + player2.ordinal) \div 2,
     confidence      |-> 24000 \div (player1.sigma + player2.sigma)]

\* the outer loop from position i on
RECURSIVE GreedyFrom(_, _, _, _, _, _)
GreedyFrom(sortedPlayers, i, paired, matches, skillGroups, matchHistory) ==
    IF i > Len(sortedPlayers) THEN matches
    ELSE IF sortedPlayers[i].originalIndex \in paired
    THEN GreedyFrom(sortedPlayers, i + 1, paired, matches, skillGroups, matchHistory)
    ELSE LET bestMatch == BestMatchFrom(sortedPlayers, i, i + 1, paired, NoMatch,
                                        skillGroups, matchHistory)
         IN  IF bestMatch.j = 0
             THEN GreedyFrom(sortedPlayers, i + 1, paired, matches,
                             skillGroups, matchHistory)
             ELSE GreedyFrom(sortedPlayers, i + 1,
                             paired \cup {sortedPlayers[i].originalIndex,
                                          sortedPlayers[bestMatch.j].originalIndex},
                             Append(matches,
                                    MakeMatch(sortedPlayers[i].player,
                                              sortedPlayers[bestMatch.j].player)),
                             skillGroups, matchHistory)

\* the matches in the order the greedy loop made them
UnsortedMatches(matches) == matches

\* matches.sort((a, b) => b.averageSkill - a.averageSkill)
SortMatches(matches) ==
    LET perm == SortPermDesc([k \in 1..Len(matches) |-> matches[k].averageSkill],
                             Len(matches))
    IN  [k \in 1..Len(matches) |-> matches[perm[k]]]

GreedyMatches(playersToMatch, skillGroups, matchHistory) ==
    IF Len(playersToMatch) = 0 THEN <<>>
    ELSE SortMatches(GreedyFrom(SortedEntries(playersToMatch), 1, {}, <<>>,
                                skillGroups, matchHistory))

-----------------------------------------------------------------------------
(* createMatchmaking *)

\* a player is removed only from an odd roster of three or more
UnmatchedOfThreeOrMore(activePlayerRatings, previouslyUnmatched) ==
    IF Len(activePlayerRatings) % 2 = 1 /\ Len(activePlayerRatings) > 1
    THEN <<playerToRemoveOf(activePlayerRatings, previouslyUnmatched).player>>
    ELSE <<>>

\* unmatchedPlayers: the player removed from an odd roster
UnmatchedPlayersOf(activePlayerRatings, previouslyUnmatched) ==
    IF Len(activePlayerRatings) % 2 = 1
    THEN <<playerToRemoveOf(activePlayerRatings, previouslyUnmatched).player>>
    ELSE <<>>

\* playersToMatch after the splice
PlayersToMatchOf(activePlayerRatings, previouslyUnmatched) ==
    IF Len(activePlayerRatings) % 2 = 1
    THEN RemoveAt(activePlayerRatings,
                  FindPlayerIndex(activePlayerRatings,
                      playerToRemoveOf(activePlayerRatings, previouslyUnmatched).player))
    ELSE activePlayerRatings

\* no warning at all
NeverWarned(activePlayerRatings, previouslyUnmatched) == <<>>

\* the players console.warn reports as unmatched two rounds in a row
WarnedOf(activePlayerRatings, previouslyUnmatched) ==
    IF /\ Len(activePlayerRatings) % 2 = 1
       /\ playerToRemoveOf(activePlayerRatings, previouslyUnmatched).player
              \in Range(previouslyUnmatched)
    THEN <<playerToRemoveOf(activePlayerRatings, previouslyUnmatched).player>>
    ELSE <<>>

\* what one call reads and logs: the roster, the match history, the previous
\* unmatched players, the ratings of the active players and the players
\* warned about
LocalsOf(roster, rks, mFile, hFile) ==
    LET activePlayerRatings == ActivePlayerRatings(roster, rks)
        previouslyUnmatched == previouslyUnmatchedOf(mFile)
    IN  [activePlayers       |-> roster,
         matchHistory        |-> loadMatchHistory(hFile),
         previouslyUnmatched |-> previouslyUnmatched,
         activePlayerRatings |-> activePlayerRatings,
         warned              |-> WarnedOf(activePlayerRatings, previouslyUnmatched)]

\* the MatchmakingResults the call returns
createMatchmaking(roster, rks, mFile, hFile) ==
    LET activePlayerRatings == ActivePlayerRatings(roster, rks)
        previouslyUnmatched == previouslyUnmatchedOf(mFile)
    IN  [matches            |->
             GreedyMatches(PlayersToMatchOf(activePlayerRatings, previouslyUnmatched),
                           createSkillGroups(activePlayerRatings),
                           loadMatchHistory(hFile)),
         totalActivePlayers |-> Len(roster),
         unmatchedPlayers   |->
             UnmatchedPlayersOf(activePlayerRatings, previouslyUnmatched),
         algorithm          |-> "greedy-optimal"]

-----------------------------------------------------------------------------
(* The rounds *)

\* no call has returned yet
NoResult == [returned |-> FALSE]

\* rosters up to MaxRoster long: names in the order of PlayerNames, the first
\* name possibly repeated (a duplicate identifier)
Rosters ==
    UNION { { [i \in 1..n |-> PlayerNames[f[i]]] :
                f \in {g \in [1..n -> 1..Len(PlayerNames)] :
                          \A i \in 1..n, j \in 1..n :
                              i < j => (g[i] < g[j] \/ (g[i] = 1 /\ g[j] = 1))} } :
            n \in 0..MaxRoster }

\* the rating snapshots: every player unrated or with one of StoredRatings
RankSnapshots ==
    { RanksOf(assign) : assign \in [Players -> StoredRatings \cup {<<>>}] }

TierIdle ==
    /\ tierInput = <<>>
    /\ tierOutput = NoResult

\* what an earlier round in which p was the only active player left on disk
SoloRound(rks, p) ==
    LET saved == createMatchmaking(<<p>>, rks, Missing, Missing)
    IN  [matches |-> saved,
         history |-> updateMatchHistory(saved.matches, loadMatchHistory(Missing), 0)]

\* a roster, a rating snapshot, and either no files of an earlier round or
\* the files a round with a single active player left
Init ==
    /\ activePlayers \in Rosters
    /\ ranks \in RankSnapshots
    /\ \/ matchesFile = Missing /\ historyFile = Missing
       \/ \E p \in Players :
              /\ matchesFile = SoloRound(ranks, p).matches
              /\ historyFile = SoloRound(ranks, p).history
    /\ result = NoResult
    /\ call = NoResult
    /\ rounds = 0
    /\ TierIdle

\* a call of createMatchmaking that writes its result to matches.json
CreateMatchmakingWriting ==
    /\ result' = createMatchmaking(activePlayers, ranks, matchesFile, historyFile)
    /\ call' = LocalsOf(activePlayers, ranks, matchesFile, historyFile)
    /\ matchesFile' = result'
    /\ UNCHANGED <<activePlayers, ranks, historyFile, rounds, tierInput, tierOutput>>

\* a call of createMatchmaking that is not saved, as the tests make it
CreateMatchmaking ==
    /\ result' = createMatchmaking(activePlayers, ranks, matchesFile, historyFile)
    /\ call' = LocalsOf(activePlayers, ranks, matchesFile, historyFile)
    /\ UNCHANGED <<activePlayers, ranks, matchesFile, historyFile, rounds,
                   tierInput, tierOutput>>

\* a round that writes matches.json and leaves the history as it was
SaveMatchesOnly ==
    /\ rounds < MaxRounds
    /\ result' = createMatchmaking(activePlayers, ranks, matchesFile, historyFile)
    /\ call' = LocalsOf(activePlayers, ranks, matchesFile, historyFile)
    /\ matchesFile' = result'
    /\ rounds' = rounds + 1
    /\ UNCHANGED <<activePlayers, ranks, historyFile, tierInput, tierOutput>>

\* saveMatchmaking: the call, then matches.json and the history are written
SaveMatchmaking ==
    /\ rounds < MaxRounds
    /\ LET matchmakingResults ==
               createMatchmaking(activePlayers, ranks, matchesFile, historyFile)
       IN  /\ result' = matchmakingResults
           /\ call' = LocalsOf(activePlayers, ranks, matchesFile, historyFile)
           /\ matchesFile' = matchmakingResults
           /\ historyFile' = updateMatchHistory(matchmakingResults.matches,
                                                loadMatchHistory(historyFile),
                                                rounds + 1)
    /\ rounds' = rounds + 1
    /\ UNCHANGED <<activePlayers, ranks, tierInput, tierOutput>>

Next == CreateMatchmaking \/ SaveMatchmaking

Spec == Init /\ [][Next]_vars

\* the history file the first round finds: none (a lookback of 3 rounds), or
\* an empty one with a lookback of 1 round or of no round
LookbackHistoryFiles ==
    { Missing,
      [matches |-> <<>>, lookbackRounds |-> 1],
      [matches |-> <<>>, lookbackRounds |-> 0] }

\* the rounds from a first round on, with the lookback the history file gives
LookbackInit ==
    /\ activePlayers \in Rosters
    /\ ranks \in RankSnapshots
    /\ matchesFile = Missing
    /\ historyFile \in LookbackHistoryFiles
    /\ result = NoResult
    /\ call = NoResult
    /\ rounds = 0
    /\ TierIdle

SpecLookback == LookbackInit /\ [][Next]_vars

\* the identifiers of the rosters the ties are followed on; E is never rated
TieNames == <<"A", "B", "C", "D", "E">>

\* the rosters of 3 to MaxTieRoster of these players, in the order of TieNames
TieRosters ==
    { SeqFilter(TieNames, keep) :
        keep \in {k \in SUBSET Range(TieNames) :
                     Cardinality(k) >= 3 /\ Cardinality(k) <= MaxTieRoster} }

\* such a roster, a rating snapshot, and either no files of an earlier round or
\* the files a round with a single active player left
TieInit ==
    /\ activePlayers \in TieRosters
    /\ ranks \in RankSnapshots
    /\ \/ matchesFile = Missing /\ historyFile = Missing
       \/ \E p \in Players :
              /\ matchesFile = SoloRound(ranks, p).matches
              /\ historyFile = SoloRound(ranks, p).history
    /\ result = NoResult
    /\ call = NoResult
    /\ rounds = 0
    /\ TierIdle

SpecTies == TieInit /\ [][Next]_vars

\* the unmatched lists of the rounds saved so far, oldest round first
SitOuts == IF call = NoResult THEN <<>> ELSE call.sitOuts

\* saveMatchmaking, round after round on the same roster and ratings; the
\* unmatched list of each saved round is kept
SaveNextRound ==
    /\ rounds < MaxSavedRounds
    /\ LET matchmakingResults ==
               createMatchmaking(activePlayers, ranks, matchesFile, historyFile)
       IN  /\ result' = matchmakingResults
           /\ call' = [sitOuts |-> Append(SitOuts, matchmakingResults.unmatchedPlayers)]
           /\ matchesFile' = matchmakingResults
           /\ historyFile' = updateMatchHistory(matchmakingResults.matches,
                                                loadMatchHistory(historyFile),
                                                rounds + 1)
    /\ rounds' = rounds + 1
    /\ UNCHANGED <<activePlayers, ranks, tierInput, tierOutput>>

SavedRoundsNext == SaveNextRound

SpecSavedRounds == Init /\ [][SavedRoundsNext]_vars

-----------------------------------------------------------------------------
(* The rounds of four players of known skill *)

\* the ordinals 20, 18, 2 and 0 of the four players
ScenarioOrdinals == [p \in Players |->
    IF p = "A" THEN 240 ELSE IF p = "B" THEN 216 ELSE IF p = "C" THEN 24 ELSE 0]

\* the sigma all four have: 2 or 25/3
ScenarioSigmas == {24, 100}

\* data/ranks.json with the four players at one sigma
ScenarioRanks(sigma) ==
    RanksOf([p \in Players |-> <<ScenarioOrdinals[p] + 3 * sigma, sigma>>])

\* the four players in any order, no files of an earlier round
ScenarioInit ==
    /\ activePlayers \in {r \in [1..4 -> Players] : NoDuplicates(r)}
    /\ ranks \in {ScenarioRanks(sigma) : sigma \in ScenarioSigmas}
    /\ matchesFile = Missing
    /\ historyFile = Missing
    /\ result = NoResult
    /\ call = NoResult
    /\ rounds = 0
    /\ TierIdle

SpecScenario == ScenarioInit /\ [][Next]_vars

-----------------------------------------------------------------------------
(* The tier builder on its own *)

\* the ordinals of the players handed to the tier builder: 0, 3.0, 15.5, 17.5
TierOrdinals == {0, 36, 186, 210}

TierNames == <<"p1", "p2", "p3", "p4", "p5", "p6", "p7", "p8", "p9">>

TierInit ==
    /\ activePlayers = <<>>
    /\ ranks = <<>>
    /\ matchesFile = Missing
    /\ historyFile = Missing
    /\ result = NoResult
    /\ call = NoResult
    /\ rounds = 0
    /\ TierIdle

\* the caller puts one more player in the list
AddTierPlayer ==
    /\ Len(tierInput) < MaxTierInput
    /\ \E o \in TierOrdinals :
           tierInput' = Append(tierInput,
                               [player  |-> TierNames[Len(tierInput) + 1],
                                mu      |-> o + 3 * DefaultSigma,
                                sigma   |-> DefaultSigma,
                                ordinal |-> o])
    /\ tierOutput' = NoResult
    /\ UNCHANGED <<activePlayers, ranks, matchesFile, historyFile, result, call, rounds>>

CallCreateSkillGroups ==
    /\ tierOutput' = [groups |-> createSkillGroups(tierInput)]
    /\ UNCHANGED <<activePlayers, ranks, matchesFile, historyFile, result, call,
                   rounds, tierInput>>

TierNext == AddTierPlayer \/ CallCreateSkillGroups

SpecTiers == TierInit /\ [][TierNext]_vars

-----------------------------------------------------------------------------
(* The tier builder on a ranked list *)

\* ordinals on both sides of the two thresholds and of the three widths:
\* 0, 2, 5, 8, 12.5, 15, 15 1/12, 17 1/12
WidthOrdinals == {0, 24, 60, 96, 150, 180, 181, 205}

\* the caller puts one more player at the end of a list that is in rank order,
\* as results.players of data/ranks.json is
AddRankedTierPlayer ==
    /\ Len(tierInput) < MaxTierInput
    /\ \E o \in WidthOrdinals :
           /\ (tierInput # <<>>) => (o <= tierInput[Len(tierInput)].ordinal)
           /\ tierInput' = Append(tierInput,
                                  [player  |-> TierNames[Len(tierInput) + 1],
                                   mu      |-> o + 3 * DefaultSigma,
                                   sigma   |-> DefaultSigma,
                                   ordinal |-> o])
    /\ tierOutput' = NoResult
    /\ UNCHANGED <<activePlayers, ranks, matchesFile, historyFile, result, call, rounds>>

\* createSkillGroups is called with the list
CallOnRankedList ==
    /\ tierOutput' = [groups |-> createSkillGroups(tierInput)]
    /\ UNCHANGED <<activePlayers, ranks, matchesFile, historyFile, result, call,
                   rounds, tierInput>>

WidthNext == AddRankedTierPlayer \/ CallOnRankedList

SpecWidths == TierInit /\ [][WidthNext]_vars

-----------------------------------------------------------------------------
(* The pairing cost on its own *)

\* the ordinals of the players the cost is computed for, each the first of a
\* tier of its own: 0, 5, 8, 15, 17 1/12, 20
CostOrdinals == {0, 60, 96, 180, 205, 240}

\* a history entry
HistoricalMatch(player1, player2) ==
    [player1 |-> player1, player2 |-> player2, timestamp |-> 0]

\* the history files the cost is computed with: none, one that holds the
\* first two players of the list in the other order, and one that holds two
\* other pairings
CostHistoryFiles ==
    { Missing,
      [matches |-> <<HistoricalMatch("p2", "p1")>>,
       lookbackRounds |-> DefaultLookbackRounds],
      [matches |-> <<HistoricalMatch("p1", "p6"), HistoricalMatch("p3", "p2")>>,
       lookbackRounds |-> DefaultLookbackRounds] }

CostInit ==
    /\ activePlayers = <<>>
    /\ ranks = <<>>
    /\ matchesFile = Missing
    /\ historyFile \in CostHistoryFiles
    /\ result = NoResult
    /\ call = NoResult
    /\ rounds = 0
    /\ TierIdle

\* one more player at the end of the list of players to match, which is in
\* rank order; the list is complete before a cost is computed
AddCostPlayer ==
    /\ call = NoResult
    /\ Len(tierInput) < MaxCostPlayers
    /\ \E o \in CostOrdinals :
           /\ (tierInput # <<>>) => (o <= tierInput[Len(tierInput)].ordinal)
           /\ tierInput' = Append(tierInput,
                                  [player  |-> TierNames[Len(tierInput) + 1],
                                   mu      |-> o + 3 * DefaultSigma,
                                   sigma   |-> DefaultSigma,
                                   ordinal |-> o])
    /\ UNCHANGED <<activePlayers, ranks, matchesFile, historyFile, result, call,
                   rounds, tierOutput>>

\* the body of the inner loop for the player at i and the candidate at j:
\* what it computes and whether it logs the recent match penalty
ComputeCost ==
    /\ call = NoResult
    /\ \E i \in 1..Len(tierInput), j \in 1..Len(tierInput) :
           /\ i < j
           /\ LET skillGroups  == createSkillGroups(tierInput)
                  matchHistory == loadMatchHistory(historyFile)
                  p1 == tierInput[i]
                  p2 == tierInput[j]
              IN  call' = [engine            |-> "tier-aware",
                           player1           |-> p1,
                           player2           |-> p2,
                           drawProbability   |-> predictDraw(p1, p2),
                           crossGroupPenalty |-> GroupPenalty(p1, p2, skillGroups),
                           recentLogged      |-> RecentPenalty(p1, p2, matchHistory) # 0,
                           cost              |-> Cost(p1, p2, skillGroups, matchHistory)]
    /\ UNCHANGED <<activePlayers, ranks, matchesFile, historyFile, result, rounds,
                   tierInput, tierOutput>>

\* the same for the earlier engine, which has no skill groups
ComputeNaiveCost ==
    /\ call = NoResult
    /\ \E i \in 1..Len(tierInput), j \in 1..Len(tierInput) :
           /\ i < j
           /\ LET matchHistory == loadMatchHistory(historyFile)
                  p1 == tierInput[i]
                  p2 == tierInput[j]
              IN  call' = [engine            |-> "tier-naive",
                           player1           |-> p1,
                           player2           |-> p2,
                           drawProbability   |-> predictDraw(p1, p2),
                           crossGroupPenalty |-> 0,
                           recentLogged      |-> NaiveRecentPenalty(p1, p2, matchHistory) # 0,
                           cost              |-> NaiveCost(p1, p2, matchHistory)]
    /\ UNCHANGED <<activePlayers, ranks, matchesFile, historyFile, result, rounds,
                   tierInput, tierOutput>>

CostNext == AddCostPlayer \/ ComputeCost \/ ComputeNaiveCost

SpecCost == CostInit /\ [][CostNext]_vars

-----------------------------------------------------------------------------
(* The pairing cost of players of different uncertainty *)

\* the ratings (mu, sigma) the cost is computed for: a newcomer (25, 25/3), a
\* settled player of the same mu (25, 2), a settled weak player (6, 2) and a
\* strong unsettled player (45, 25/3); ordinals 0, 19, 0 and 20
CostRatings == {<<300, 100>>, <<300, 24>>, <<72, 24>>, <<540, 100>>}

\* one more player at the end of the list of players to match, which is in
\* rank order; the list is complete before a cost is computed
AddRatedCostPlayer ==
    /\ call = NoResult
    /\ Len(tierInput) < MaxRatedCostPlayers
    /\ \E r \in CostRatings :
           /\ (tierInput # <<>>)
                  => (r[1] - 3 * r[2] <= tierInput[Len(tierInput)].ordinal)
           /\ tierInput' = Append(tierInput,
                                  PlayerRating(TierNames[Len(tierInput) + 1],
                                               r[1], r[2]))
    /\ UNCHANGED <<activePlayers, ranks, matchesFile, historyFile, result, call,
                   rounds, tierOutput>>

RatedCostNext == AddRatedCostPlayer \/ ComputeCost \/ ComputeNaiveCost

SpecCostRatings == CostInit /\ [][RatedCostNext]_vars

-----------------------------------------------------------------------------
(* The tier labels of a ladder of players *)

LadderNames ==
    << "q1", "q2", "q3", "q4", "q5", "q6", "q7", "q8", "q9", "q10", "q11", "q12",
       "q13", "q14" >>

\* the ordinal of the first player of a ladder: 43 1/3
LadderTop == 520

\* the step to the next player of a ladder: 3 1/3 points, beyond every tier
\* width, so that the next player starts a tier
LadderStep == 40

\* one more player at the end of the ladder, which is in rank order: at the
\* ordinal of the player before, or one step below
AddLadderPlayer ==
    /\ call = NoResult
    /\ Len(tierInput) < MaxLadder
    /\ \E o \in IF tierInput = <<>> THEN {LadderTop}
                 ELSE {tierInput[Len(tierInput)].ordinal,
                       tierInput[Len(tierInput)].ordinal - LadderStep} :
           tierInput' = Append(tierInput,
                               [player  |-> LadderNames[Len(tierInput) + 1],
                                mu      |-> o + 3 * DefaultSigma,
                                sigma   |-> DefaultSigma,
                                ordinal |-> o])
    /\ tierOutput' = NoResult
    /\ UNCHANGED <<activePlayers, ranks, matchesFile, historyFile, result, call, rounds>>

\* createSkillGroups is called with the ladder
CallOnLadder ==
    /\ call = NoResult
    /\ tierOutput = NoResult
    /\ tierOutput' = [groups |-> createSkillGroups(tierInput)]
    /\ UNCHANGED <<activePlayers, ranks, matchesFile, historyFile, result, call,
                   rounds, tierInput>>

\* the cost of two players of the ladder, once its tiers are built
ComputeLadderCost ==
    /\ tierOutput # NoResult
    /\ ComputeCost

LadderNext == AddLadderPlayer \/ CallOnLadder \/ ComputeLadderCost

SpecLabels == TierInit /\ [][LadderNext]_vars

-----------------------------------------------------------------------------
(* The match history store on its own *)

\* the match lists a round may hand to updateMatchHistory (player1 and player2
\* are all it reads of a match): one pairing, two pairings of which the first
\* is the pairing of the list before, turned round, and another pairing
HistoryRounds ==
    << <<[player1 |-> "A", player2 |-> "B"]>>,
       <<[player1 |-> "B", player2 |-> "A"], [player1 |-> "C", player2 |-> "D"]>>,
       <<[player1 |-> "C", player2 |-> "D"]>> >>

\* the match lists recorded so far, oldest round first
RecordedRounds == IF call = NoResult THEN <<>> ELSE call.log

\* a history file with a lookback of one round
ShortLookback == [matches |-> <<>>, lookbackRounds |-> 1]

\* no history file (the default lookback), or an empty one of one round
HistoryInit ==
    /\ activePlayers = <<>>
    /\ ranks = <<>>
    /\ matchesFile = Missing
    /\ historyFile \in {Missing, ShortLookback}
    /\ result = NoResult
    /\ call = NoResult
    /\ rounds = 0
    /\ TierIdle

\* the end of saveMatchmaking: the history is loaded, updated with the round's
\* matches and saved.  The rounds of a behaviour take their match lists in
\* the order of HistoryRounds.
RecordRound ==
    /\ rounds < MaxRecorded
    /\ \E c \in 1..Len(HistoryRounds) :
           /\ \A d \in 1..Len(HistoryRounds) :
                  (call # NoResult /\ call.newMatches = HistoryRounds[d]) => d <= c
           /\ LET currentHistory == loadMatchHistory(historyFile)
                  updatedHistory ==
                      updateMatchHistory(HistoryRounds[c], currentHistory, rounds + 1)
              IN  /\ historyFile' = updatedHistory
                  /\ result' = updatedHistory
                  /\ call' = [newMatches |-> HistoryRounds[c],
                              history    |-> currentHistory,
                              log        |-> Append(RecordedRounds, HistoryRounds[c])]
    /\ rounds' = rounds + 1
    /\ UNCHANGED <<activePlayers, ranks, matchesFile, tierInput, tierOutput>>

HistoryNext == RecordRound

SpecHistory == HistoryInit /\ [][HistoryNext]_vars

-----------------------------------------------------------------------------
(* The earlier engine without skill groups (src/unnamed/part_001) *)

\* results.players.filter(player => activePlayers.includes(player.player))
NaiveActivePlayerRatings(roster, rks) ==
    SeqFilter(rks, {r \in Range(rks) : r.player \in Range(roster)})

\* unmatchedPlayers: the most uncertain player of an odd list
NaiveUnmatchedPlayersOf(activePlayerRatings) ==
    IF Len(activePlayerRatings) % 2 = 1
    THEN <<MostUncertain(activePlayerRatings).player>>
    ELSE <<>>

\* playersToMatch after the splice
NaivePlayersToMatchOf(activePlayerRatings) ==
    IF Len(activePlayerRatings) % 2 = 1
    THEN RemoveAt(activePlayerRatings,
                  FindPlayerIndex(activePlayerRatings,
                                  MostUncertain(activePlayerRatings).player))
    ELSE activePlayerRatings

\* the inner loop from candidate j on: the first candidate of least cost
RECURSIVE NaiveBestMatchFrom(_, _, _, _, _, _)
NaiveBestMatchFrom(sortedPlayers, i, j, paired, bestMatch, matchHistory) ==
    IF j > Len(sortedPlayers) THEN bestMatch
    ELSE IF sortedPlayers[j].originalIndex \in paired
    THEN NaiveBestMatchFrom(sortedPlayers, i, j + 1, paired, bestMatch, matchHistory)
    ELSE LET cost == NaiveCost(sortedPlayers[i].player, sortedPlayers[j].player,
                               matchHistory)
         IN  NaiveBestMatchFrom(sortedPlayers, i, j + 1, paired,
                                IF bestMatch.j = 0 \/ cost < bestMatch.cost
                                THEN [j |-> j, cost |-> cost] ELSE bestMatch,
                                matchHistory)

\* the outer loop from position i on
RECURSIVE NaiveGreedyFrom(_, _, _, _, _)
NaiveGreedyFrom(sortedPlayers, i, paired, matches, matchHistory) ==
    IF i > Len(sortedPlayers) THEN matches
    ELSE IF sortedPlayers[i].originalIndex \in paired
    THEN NaiveGreedyFrom(sortedPlayers, i + 1, paired, matches, matchHistory)
    ELSE LET bestMatch == NaiveBestMatchFrom(sortedPlayers, i, i + 1, paired,
                                             NoMatch, matchHistory)
         IN  IF bestMatch.j = 0
             THEN NaiveGreedyFrom(sortedPlayers, i + 1, paired, matches, matchHistory)
             ELSE NaiveGreedyFrom(sortedPlayers, i + 1,
                                  paired \cup {sortedPlayers[i].originalIndex,
                                               sortedPlayers[bestMatch.j].originalIndex},
                                  Append(matches,
                                         MakeMatch(sortedPlayers[i].player,
                                                   sortedPlayers[bestMatch.j].player)),
                                  matchHistory)

\* the MatchmakingResults the earlier createMatchmaking returns
naiveCreateMatchmaking(roster, rks, hFile) ==
    LET activePlayerRatings == NaiveActivePlayerRatings(roster, rks)
        playersToMatch      == NaivePlayersToMatchOf(activePlayerRatings)
    IN  [matches            |->
             IF Len(playersToMatch) = 0 THEN <<>>
             ELSE SortMatches(NaiveGreedyFrom(SortedEntries(playersToMatch), 1, {},
                                              <<>>, loadMatchHistory(hFile))),
         totalActivePlayers |-> Len(roster),
         unmatchedPlayers   |-> NaiveUnmatchedPlayersOf(activePlayerRatings),
         algorithm          |-> "greedy-optimal"]

\* what one call of the earlier engine reads
NaiveLocalsOf(roster, rks, hFile) ==
    [activePlayers       |-> roster,
     matchHistory        |-> loadMatchHistory(hFile),
     previouslyUnmatched |-> <<>>,
     activePlayerRatings |-> NaiveActivePlayerRatings(roster, rks)]

NaiveInit ==
    /\ activePlayers \in Rosters
    /\ ranks \in RankSnapshots
    /\ matchesFile = Missing
    /\ historyFile = Missing
    /\ result = NoResult
    /\ call = NoResult
    /\ rounds = 0
    /\ TierIdle

\* a call of the earlier createMatchmaking that is not saved
NaiveCreateMatchmaking ==
    /\ result' = naiveCreateMatchmaking(activePlayers, ranks, historyFile)
    /\ call' = NaiveLocalsOf(activePlayers, ranks, historyFile)
    /\ UNCHANGED <<activePlayers, ranks, matchesFile, historyFile, rounds,
                   tierInput, tierOutput>>

\* the earlier saveMatchmaking
NaiveSaveMatchmaking ==
    /\ rounds < MaxRounds
    /\ LET matchmakingResults ==
               naiveCreateMatchmaking(activePlayers, ranks, historyFile)
       IN  /\ result' = matchmakingResults
           /\ call' = NaiveLocalsOf(activePlayers, ranks, historyFile)
           /\ matchesFile' = matchmakingResults
           /\ historyFile' = updateMatchHistory(matchmakingResults.matches,
                                                loadMatchHistory(historyFile),
                                                rounds + 1)
    /\ rounds' = rounds + 1
    /\ UNCHANGED <<activePlayers, ranks, tierInput, tierOutput>>

NaiveNext == NaiveCreateMatchmaking \/ NaiveSaveMatchmaking

SpecNaive == NaiveInit /\ [][NaiveNext]_vars

-----------------------------------------------------------------------------
(* processMatches (src/src/index.ts) *)

\* openskill rate([[winner], [loser]]) with the default model, on ratings in
\* twelfths rounded to the nearest: <<winner mu, winner sigma, loser mu, loser
\* sigma, new winner mu, new winner sigma, new loser mu, new loser sigma>> for
\* the ratings that MaxMatchLog + 1 matches can produce from the prior
RateTable ==
    { <<241, 94, 300, 100, 275, 91, 262, 97>>,
      <<241, 94, 329, 97, 278, 91, 289, 94>>,
      <<241, 94, 332, 97, 278, 91, 292, 94>>,
      <<244, 94, 300, 100, 278, 91, 262, 97>>,
      <<244, 94, 356, 94, 284, 91, 316, 91>>,
      <<265, 97, 300, 100, 298, 94, 264, 97>>,
      <<265, 97, 301, 94, 299, 94, 269, 91>>,
      <<265, 97, 332, 97, 302, 94, 295, 94>>,
      <<268, 97, 268, 97, 298, 94, 238, 94>>,
      <<268, 97, 271, 97, 299, 94, 240, 94>>,
      <<268, 97, 299, 94, 302, 94, 267, 91>>,
      <<268, 97, 300, 100, 301, 94, 265, 97>>,
      <<268, 97, 332, 97, 305, 94, 295, 94>>,
      <<268, 97, 335, 97, 305, 94, 298, 94>>,
      <<268, 97, 359, 94, 308, 94, 322, 91>>,
      <<271, 97, 268, 97, 301, 94, 238, 94>>,
      <<271, 97, 300, 100, 304, 94, 265, 97>>,
      <<271, 97, 359, 94, 311, 94, 322, 91>>,
      <<295, 94, 300, 100, 324, 91, 267, 97>>,
      <<295, 94, 305, 94, 325, 91, 275, 91>>,
      <<299, 94, 268, 97, 325, 91, 240, 94>>,
      <<299, 94, 300, 100, 328, 91, 268, 97>>,
      <<299, 94, 335, 97, 331, 91, 301, 94>>,
      <<300, 100, 241, 94, 326, 97, 218, 91>>,
      <<300, 100, 244, 94, 327, 97, 221, 91>>,
      <<300, 100, 265, 97, 328, 97, 238, 94>>,
      <<300, 100, 268, 97, 329, 97, 241, 94>>,
      <<300, 100, 271, 97, 329, 97, 244, 94>>,
      <<300, 100, 295, 94, 332, 97, 267, 91>>,
      <<300, 100, 299, 94, 332, 97, 270, 91>>,
      <<300, 100, 300, 100, 332, 97, 268, 97>>,
      <<300, 100, 301, 94, 332, 97, 272, 91>>,
      <<300, 100, 305, 94, 333, 97, 276, 91>>,
      <<300, 100, 329, 97, 335, 97, 296, 94>>,
      <<300, 100, 332, 97, 335, 97, 299, 94>>,
      <<300, 100, 335, 97, 336, 97, 302, 94>>,
      <<300, 100, 356, 94, 338, 97, 322, 91>>,
      <<300, 100, 359, 94, 338, 97, 325, 91>>,
      <<301, 94, 265, 97, 327, 91, 238, 94>>,
      <<301, 94, 300, 100, 330, 91, 268, 97>>,
      <<301, 94, 332, 97, 333, 91, 298, 94>>,
      <<305, 94, 295, 94, 333, 91, 267, 91>>,
      <<305, 94, 300, 100, 333, 91, 268, 97>>,
      <<329, 97, 241, 94, 351, 94, 220, 91>>,
      <<329, 97, 300, 100, 356, 94, 271, 97>>,
      <<329, 97, 332, 97, 360, 94, 301, 94>>,
      <<332, 97, 241, 94, 354, 94, 220, 91>>,
      <<332, 97, 265, 97, 356, 94, 241, 94>>,
      <<332, 97, 268, 97, 356, 94, 244, 94>>,
      <<332, 97, 300, 100, 359, 94, 271, 97>>,
      <<332, 97, 301, 94, 360, 94, 275, 91>>,
      <<332, 97, 329, 97, 362, 94, 299, 94>>,
      <<332, 97, 332, 97, 362, 94, 302, 94>>,
      <<335, 97, 268, 97, 359, 94, 244, 94>>,
      <<335, 97, 299, 94, 362, 94, 273, 91>>,
      <<335, 97, 300, 100, 362, 94, 272, 97>>,
      <<356, 94, 244, 94, 375, 91, 225, 91>>,
      <<356, 94, 300, 100, 379, 91, 273, 97>>,
      <<359, 94, 268, 97, 380, 91, 246, 94>>,
      <<359, 94, 271, 97, 380, 91, 249, 94>>,
      <<359, 94, 300, 100, 382, 91, 274, 97>> }

rate(winnerRating, loserRating) ==
    LET t == CHOOSE row \in RateTable :
                 /\ row[1] = winnerRating.mu /\ row[2] = winnerRating.sigma
                 /\ row[3] = loserRating.mu  /\ row[4] = loserRating.sigma
    IN  << [mu |-> t[5], sigma |-> t[6]], [mu |-> t[7], sigma |-> t[8]] >>

\* openskill ordinal(rating): mu - 3 sigma
ordinal(r) == r.mu - 3 * r.sigma

\* playerRatings.get(name) || rating(); the Map is a sequence of entries in
\* the order of first insertion
MapGetOrRating(playerRatings, name) ==
    IF \E i \in 1..Len(playerRatings) : playerRatings[i].player = name
    THEN playerRatings[CHOOSE i \in 1..Len(playerRatings) :
                           playerRatings[i].player = name].rating
    ELSE [mu |-> DefaultMu, sigma |-> DefaultSigma]

\* playerRatings.set(name, r): an existing key keeps its place
MapSet(playerRatings, name, r) ==
    IF \E i \in 1..Len(playerRatings) : playerRatings[i].player = name
    THEN [i \in 1..Len(playerRatings) |->
             IF playerRatings[i].player = name
             THEN [player |-> name, rating |-> r] ELSE playerRatings[i]]
    ELSE Append(playerRatings, [player |-> name, rating |-> r])

\* matchData.forEach from entry k on
RECURSIVE RateFrom(_, _, _)
RateFrom(matchData, k, playerRatings) ==
    IF k > Len(matchData) THEN playerRatings
    ELSE LET match       == matchData[k]
             ratedTeams  == rate(MapGetOrRating(playerRatings, match.winner),
                                 MapGetOrRating(playerRatings, match.loser))
         IN  RateFrom(matchData, k + 1,
                      MapSet(MapSet(playerRatings, match.winner, ratedTeams[1]),
                             match.loser, ratedTeams[2]))

\* the players in the order the Map holds them
InsertionOrder(results) == results

\* results.sort((a, b) => b.ordinal - a.ordinal)
SortResults(results) ==
    LET perm == SortPermDesc([k \in 1..Len(results) |-> results[k].ordinal],
                             Len(results))
    IN  [k \in 1..Len(results) |-> results[perm[k]]]

\* finalResults, as written to data/ranks.json
processMatches(matchData) ==
    LET playerRatings == RateFrom(matchData, 1, <<>>)
        results == [k \in 1..Len(playerRatings) |->
                       [player  |-> playerRatings[k].player,
                        mu      |-> playerRatings[k].rating.mu,
                        sigma   |-> playerRatings[k].rating.sigma,
                        ordinal |-> ordinal(playerRatings[k].rating)]]
    IN  [players |-> SortResults(results), totalMatches |-> Len(matchData)]

\* data/match-log.json: up to MaxMatchLog entries, each a winner and a loser
MatchLogs ==
    UNION { [1..n -> {m \in [winner : Players, loser : Players] :
                          m.winner # m.loser}] :
            n \in 0..MaxMatchLog }

ProcessInit ==
    /\ activePlayers = <<>>
    /\ ranks = <<>>
    /\ matchesFile = Missing
    /\ historyFile = Missing
    /\ result = NoResult
    /\ call = NoResult
    /\ rounds = 0
    /\ TierIdle

\* one run of processMatches on some match log: ranks.json is written
ProcessMatches ==
    /\ \E matchData \in MatchLogs :
           /\ call' = [matchData |-> matchData]
           /\ result' = processMatches(matchData)
           /\ ranks' = processMatches(matchData).players
    /\ UNCHANGED <<activePlayers, matchesFile, historyFile, rounds,
                   tierInput, tierOutput>>

ProcessNext == ProcessMatches

SpecProcess == ProcessInit /\ [][ProcessNext]_vars

-----------------------------------------------------------------------------
(* saveMatchmaking statement by statement *)

\* the rating snapshots of the rounds followed step by step: nobody rated, or
\* A and B rated
StepRanks ==
    { RanksOf([p \in Players |-> <<>>]),
      RanksOf([p \in Players |-> IF p = "A" THEN <<360, 24>>
                                 ELSE IF p = "B" THEN <<324, 96>> ELSE <<>>]) }

\* the history file the first round finds: none, one that does not parse, or
\* one that holds the pairing of A and B
StepHistoryFiles ==
    { Missing, Corrupt,
      [matches |-> <<HistoricalMatch("B", "A")>>,
       lookbackRounds |-> DefaultLookbackRounds] }

StepInit ==
    /\ activePlayers \in Rosters
    /\ ranks \in StepRanks
    /\ matchesFile = Missing
    /\ historyFile \in StepHistoryFiles
    /\ result = NoResult
    /\ call = NoResult
    /\ rounds = 0
    /\ TierIdle

\* const matchmakingResults = createMatchmaking(): the history, matches.json
\* and ranks.json are read and the matches computed
StepCreateMatchmaking ==
    /\ rounds < MaxRounds
    /\ IF call = NoResult THEN TRUE ELSE call.pc = "saved"
    /\ result' = createMatchmaking(activePlayers, ranks, matchesFile, historyFile)
    /\ call' = [pc                  |-> "created",
                historyFileAtStart  |-> historyFile,
                historyAccesses     |-> <<"load">>,
                matchHistory        |-> loadMatchHistory(historyFile),
                currentHistory      |-> NoResult,
                activePlayers       |-> activePlayers,
                activePlayerRatings |-> ActivePlayerRatings(activePlayers, ranks),
                previouslyUnmatched |-> previouslyUnmatchedOf(matchesFile)]
    /\ UNCHANGED <<activePlayers, ranks, matchesFile, historyFile, rounds,
                   tierInput, tierOutput>>

\* fs.writeFileSync(outputPath, JSON.stringify(matchmakingResults, ...))
StepWriteMatches ==
    /\ IF call = NoResult THEN FALSE ELSE call.pc = "created"
    /\ matchesFile' = result
    /\ call' = [call EXCEPT !.pc = "written"]
    /\ UNCHANGED <<activePlayers, ranks, historyFile, result, rounds,
                   tierInput, tierOutput>>

\* const currentHistory = loadMatchHistory()
StepLoadCurrentHistory ==
    /\ IF call = NoResult THEN FALSE ELSE call.pc = "written"
    /\ call' = [call EXCEPT !.pc = "loaded",
                            !.historyAccesses = Append(@, "load"),
                            !.currentHistory = loadMatchHistory(historyFile)]
    /\ UNCHANGED <<activePlayers, ranks, matchesFile, historyFile, result, rounds,
                   tierInput, tierOutput>>

\* saveMatchHistory(updateMatchHistory(matchmakingResults.matches,
\* currentHistory, currentTimestamp))
StepSaveMatchHistory ==
    /\ IF call = NoResult THEN FALSE ELSE call.pc = "loaded"
    /\ historyFile' = updateMatchHistory(result.matches, call.currentHistory,
                                         rounds + 1)
    /\ call' = [call EXCEPT !.pc = "saved",
                            !.historyAccesses = Append(@, "save")]
    /\ rounds' = rounds + 1
    /\ UNCHANGED <<activePlayers, ranks, matchesFile, result,
                   tierInput, tierOutput>>

StepNext ==
    \/ StepCreateMatchmaking
    \/ StepWriteMatches
    \/ StepLoadCurrentHistory
    \/ StepSaveMatchHistory

SpecSteps == StepInit /\ [][StepNext]_vars

-----------------------------------------------------------------------------
(* The greedy loop of createMatchmaking, one outer iteration at a time *)

GreedyInit ==
    /\ activePlayers \in Rosters
    /\ ranks \in RankSnapshots
    /\ matchesFile = Missing
    /\ historyFile \in StepHistoryFiles
    /\ result = NoResult
    /\ call = NoResult
    /\ rounds = 0
    /\ TierIdle

\* createMatchmaking up to the loop: the files are read, the odd player is
\* removed, the players are sorted; matches and paired are empty
GreedyStart ==
    /\ call = NoResult
    /\ LET activePlayerRatings == ActivePlayerRatings(activePlayers, ranks)
           previouslyUnmatched == previouslyUnmatchedOf(matchesFile)
       IN  call' = [pc                  |-> "loop",
                    activePlayers       |-> activePlayers,
                    activePlayerRatings |-> activePlayerRatings,
                    previouslyUnmatched |-> previouslyUnmatched,
                    unmatchedPlayers    |->
                        UnmatchedPlayersOf(activePlayerRatings, previouslyUnmatched),
                    sortedPlayers       |->
                        SortedEntries(PlayersToMatchOf(activePlayerRatings,
                                                       previouslyUnmatched)),
                    skillGroups         |-> createSkillGroups(activePlayerRatings),
                    matchHistory        |-> loadMatchHistory(historyFile),
                    i                   |-> 1,
                    paired              |-> {},
                    matches             |-> <<>>,
                    pairs               |-> <<>>,
                    offered             |-> {}]
    /\ UNCHANGED <<activePlayers, ranks, matchesFile, historyFile, result, rounds,
                   tierInput, tierOutput>>

\* one iteration of the outer loop: the player at i, if not yet paired, is
\* paired with the best candidate behind it that is not yet paired; offered
\* holds the candidates the inner loop computed a cost for, pairs the places
\* of the two players of each match
GreedyStep ==
    /\ IF call = NoResult THEN FALSE ELSE call.pc = "loop"
    /\ call.i <= Len(call.sortedPlayers)
    /\ LET sortedPlayers == call.sortedPlayers
           i             == call.i
       IN  IF sortedPlayers[i].originalIndex \in call.paired
           THEN call' = [call EXCEPT !.i = i + 1, !.offered = {}]
           ELSE LET bestMatch == BestMatchFrom(sortedPlayers, i, i + 1, call.paired,
                                               NoMatch, call.skillGroups,
                                               call.matchHistory)
                    offered   == {sortedPlayers[j].originalIndex :
                                     j \in {k \in (i + 1)..Len(sortedPlayers) :
                                               sortedPlayers[k].originalIndex
                                                   \notin call.paired}}
                IN  IF bestMatch.j = 0
                    THEN call' = [call EXCEPT !.i = i + 1, !.offered = offered]
                    ELSE call' =
                             [call EXCEPT
                                 !.i = i + 1,
                                 !.offered = offered,
                                 !.paired = @ \cup
                                     {sortedPlayers[i].originalIndex,
                                      sortedPlayers[bestMatch.j].originalIndex},
                                 !.matches = Append(@,
                                     MakeMatch(sortedPlayers[i].player,
                                               sortedPlayers[bestMatch.j].player)),
                                 !.pairs = Append(@, <<i, bestMatch.j>>)]
    /\ UNCHANGED <<activePlayers, ranks, matchesFile, historyFile, result, rounds,
                   tierInput, tierOutput>>

\* the loop is over: the matches are sorted and returned
GreedyReturn ==
    /\ IF call = NoResult THEN FALSE ELSE call.pc = "loop"
    /\ call.i > Len(call.sortedPlayers)
    /\ result' = [matches            |-> SortMatches(call.matches),
                  totalActivePlayers |-> Len(activePlayers),
                  unmatchedPlayers   |-> call.unmatchedPlayers,
                  algorithm          |-> "greedy-optimal"]
    /\ call' = [call EXCEPT !.pc = "done"]
    /\ UNCHANGED <<activePlayers, ranks, matchesFile, historyFile, rounds,
                   tierInput, tierOutput>>

GreedyNext == GreedyStart \/ GreedyStep \/ GreedyReturn

SpecGreedy == GreedyInit /\ [][GreedyNext]_vars

-----------------------------------------------------------------------------
(* Properties of one round *)

Returned == result # NoResult

\* the places (match, side) of the returned match list that hold player p
MatchSlots(p) ==
    {<<k, 1>> : k \in {m \in 1..Len(result.matches) : result.matches[m].player1 = p}}
        \cup
    {<<k, 2>> : k \in {m \in 1..Len(result.matches) : result.matches[m].player2 = p}}

\* the players of the returned matches
MatchedPlayers ==
    {result.matches[k].player1 : k \in 1..Len(result.matches)}
        \cup {result.matches[k].player2 : k \in 1..Len(result.matches)}

OddRoster == Len(call.activePlayers) % 2 = 1

\* the sigma the call used for an active player
ActiveSigma(name) ==
    call.activePlayerRatings[CHOOSE i \in 1..Len(call.activePlayerRatings) :
                                 call.activePlayerRatings[i].player = name].sigma

\* the active players that did not sit out the previous round
FreshPlayers == Range(call.activePlayers) \ Range(call.previouslyUnmatched)

\* C1: on a roster without duplicate identifiers, each player is player1 or
\* player2 of at most one returned match
C1_NoDoubleBooking ==
    (Returned /\ NoDuplicates(call.activePlayers))
        => \A p \in Players : Cardinality(MatchSlots(p)) <= 1

\* a duplicate-free roster of four was paired into two matches
C1_Witness ==
    /\ Returned
    /\ NoDuplicates(call.activePlayers)
    /\ Len(call.activePlayers) = 4
    /\ Len(result.matches) = 2

\* C2: twice the number of matches plus the number of unmatched players is the
\* reported total, the total is the size of the roster, and at most one
\* player is unmatched
C2_Completeness ==
    Returned =>
        /\ 2 * Len(result.matches) + Len(result.unmatchedPlayers)
               = result.totalActivePlayers
        /\ result.totalActivePlayers = Len(call.activePlayers)
        /\ Len(result.unmatchedPlayers) <= 1

\* an odd roster with a player that has no stored rating: one match, one
\* unmatched player
C2_Witness ==
    /\ Returned
    /\ Len(call.activePlayers) = 3
    /\ \E p \in Range(call.activePlayers) : ~HasRating(ranks, p)
    /\ Len(result.matches) = 1
    /\ Len(result.unmatchedPlayers) = 1

\* C3: every active player is in exactly one match or is the one sit-out
\* player, never both, never neither; the matched players with the sit-out
\* player are the roster; the sit-out player is in no match
C3_MatchedOrSitOut ==
    Returned =>
        /\ \A p \in Range(call.activePlayers) :
               Cardinality(MatchSlots(p)) + Count(result.unmatchedPlayers, p) = 1
        /\ MatchedPlayers \cup Range(result.unmatchedPlayers)
               = Range(call.activePlayers)
        /\ Range(result.unmatchedPlayers) \cap MatchedPlayers = {}

\* on a roster without duplicate identifiers the statement of C3 holds
MatchedOrSitOutOnDistinctRoster ==
    (Returned /\ NoDuplicates(call.activePlayers)) => C3_MatchedOrSitOut

\* C4: the two players of a returned match are different
C4_SelfPairExclusion ==
    Returned =>
        \A k \in 1..Len(result.matches) :
            result.matches[k].player1 # result.matches[k].player2

\* on a roster without duplicate identifiers the statement of C4 holds
SelfPairExclusionOnDistinctRoster ==
    (Returned /\ NoDuplicates(call.activePlayers)) => C4_SelfPairExclusion

\* C5: exactly one unmatched player for an odd number of active players, none
\* for an even number
C5_OddEven ==
    Returned =>
        Len(result.unmatchedPlayers)
            = (IF result.totalActivePlayers % 2 = 1 THEN 1 ELSE 0)

\* a single active player sits out
C5_Witness ==
    /\ Returned
    /\ result.totalActivePlayers = 1
    /\ Len(result.unmatchedPlayers) = 1

\* C6: the previous sit-out player P of an odd roster that holds P and another
\* player does not sit out again and is in a match; P sits out again only if
\* the roster holds no other player
C6_CarryOverBias ==
    (Returned /\ OddRoster) =>
        \A P \in Range(call.previouslyUnmatched) \cap Range(call.activePlayers) :
            /\ (Range(call.activePlayers) # {P})
                   => (P \notin Range(result.unmatchedPlayers) /\ P \in MatchedPlayers)
            /\ (P \in Range(result.unmatchedPlayers))
                   => Range(call.activePlayers) = {P}

\* the previous sit-out player is the most uncertain of an odd roster and is
\* matched this round
C6_Witness ==
    /\ Returned
    /\ Len(call.activePlayers) = 3
    /\ \E P \in Range(call.previouslyUnmatched) \cap Range(call.activePlayers) :
           /\ \A q \in Range(call.activePlayers) \ {P} :
                  ActiveSigma(q) < ActiveSigma(P)
           /\ Range(call.activePlayers) # {P}
           /\ P \in MatchedPlayers

\* the players the sit-out player is chosen among
SitOutPool == IF FreshPlayers # {} THEN FreshPlayers ELSE Range(call.activePlayers)

\* C7: the sit-out player of an odd roster has the highest sigma among the
\* players that did not sit out the previous round, or among all players when
\* every player did
C7_SitOutHighestUncertainty ==
    (Returned /\ OddRoster) =>
        /\ Len(result.unmatchedPlayers) = 1
        /\ result.unmatchedPlayers[1] \in SitOutPool
        /\ \A q \in SitOutPool :
               ActiveSigma(q) <= ActiveSigma(result.unmatchedPlayers[1])

\* the previous sit-out player is active, the two others differ in sigma, and
\* the more uncertain of them sits out
C7_Witness ==
    /\ Returned
    /\ Len(call.activePlayers) = 3
    /\ Range(call.previouslyUnmatched) \cap Range(call.activePlayers) # {}
    /\ \E p, q \in FreshPlayers :
           /\ ActiveSigma(q) < ActiveSigma(p)
           /\ result.unmatchedPlayers = <<p>>

\* the highest sigma among the active players of the call
MaxActiveSigma ==
    CHOOSE x \in {ActiveSigma(p) : p \in Range(call.activePlayers)} :
        \A q \in Range(call.activePlayers) : ActiveSigma(q) <= x

C9_SitOutTwiceWarning ==
    Returned =>
        /\ (call.warned # <<>>)
               <=> (\E p \in Range(result.unmatchedPlayers) :
                        p \in Range(call.previouslyUnmatched))
        /\ (call.warned # <<>>)
               => /\ result.unmatchedPlayers = call.warned
                  /\ result.totalActivePlayers = Len(call.activePlayers)
                  /\ 2 * Len(result.matches) + 1 = result.totalActivePlayers

\* a player sat out twice running and the warning was raised
C9_Witness ==
    /\ Returned
    /\ call.warned # <<>>
    /\ call.warned = call.previouslyUnmatched

\* the players the call paired, in the order it processed them
ProcessingOrder ==
    LET entries == SortedEntries(PlayersToMatchOf(call.activePlayerRatings,
                                                  call.previouslyUnmatched))
    IN  [i \in 1..Len(entries) |-> entries[i].player]

\* the place of a player in the processing order
PlaceOf(name) ==
    CHOOSE i \in 1..Len(ProcessingOrder) : ProcessingOrder[i].player = name

\* the cost the call had for the players at two places of the processing order
CostAt(i, j) ==
    Cost(ProcessingOrder[i], ProcessingOrder[j],
         createSkillGroups(call.activePlayerRatings), call.matchHistory)

\* C18: on a roster without duplicate identifiers, the processing order is
\* descending in mu - 3 sigma; player1 of a match comes before player2 in it;
\* and player2 costs player1 no more than either player of any match whose
\* player1 comes later, those being the later players not yet paired when
\* player1 was processed
C18_GreedyMinimumCost ==
    (Returned /\ NoDuplicates(call.activePlayers)) =>
        /\ \A i \in 1..(Len(ProcessingOrder) - 1) :
               ProcessingOrder[i].mu - 3 * ProcessingOrder[i].sigma
                   >= ProcessingOrder[i + 1].mu - 3 * ProcessingOrder[i + 1].sigma
        /\ 2 * Len(result.matches) = Len(ProcessingOrder)
        /\ \A k \in 1..Len(result.matches) :
               PlaceOf(result.matches[k].player1) < PlaceOf(result.matches[k].player2)
        /\ \A k, l \in 1..Len(result.matches) :
               PlaceOf(result.matches[k].player1) < PlaceOf(result.matches[l].player1)
                   => LET chosen == CostAt(PlaceOf(result.matches[k].player1),
                                           PlaceOf(result.matches[k].player2))
                      IN  /\ chosen <= CostAt(PlaceOf(result.matches[k].player1),
                                              PlaceOf(result.matches[l].player1))
                          /\ chosen <= CostAt(PlaceOf(result.matches[k].player1),
                                              PlaceOf(result.matches[l].player2))

\* four players given out of order: the first in the processing order is
\* paired with the third, which costs strictly less than the second
C18_Witness ==
    /\ Returned
    /\ NoDuplicates(call.activePlayers)
    /\ Len(ProcessingOrder) = 4
    /\ \E i \in 1..3 :
           call.activePlayerRatings[i].ordinal < call.activePlayerRatings[i + 1].ordinal
    /\ \E k \in 1..Len(result.matches) :
           /\ PlaceOf(result.matches[k].player1) = 1
           /\ PlaceOf(result.matches[k].player2) = 3
    /\ CostAt(1, 3) < CostAt(1, 2)

\* the cost before the recency penalty: the cost with an empty history
BaseCostAt(i, j) ==
    Cost(ProcessingOrder[i], ProcessingOrder[j],
         createSkillGroups(call.activePlayerRatings),
         [matches |-> <<>>, lookbackRounds |-> DefaultLookbackRounds])

\* the history the call read holds the players at the two places, in either
\* order
InWindowAt(i, j) ==
    \E k \in 1..Len(call.matchHistory.matches) :
        {call.matchHistory.matches[k].player1, call.matchHistory.matches[k].player2}
            = {ProcessingOrder[i].player, ProcessingOrder[j].player}

\* the places of the candidates of the player at place i when it was
\* processed: the later players that no earlier player had taken
CandidatesAt(i) ==
    {j \in (i + 1)..Len(ProcessingOrder) :
        \A k \in 1..Len(result.matches) :
            ProcessingOrder[j].player
                    \in {result.matches[k].player1, result.matches[k].player2}
                => PlaceOf(result.matches[k].player1) >= i}

\* a candidate in the window whose cost before the recency penalty is lower
\* than every other candidate's by more than the penalty is chosen
ClearlyBetterStillChosen(i, x) ==
    \A b \in CandidatesAt(i) :
        (/\ InWindowAt(i, b)
         /\ \A c \in CandidatesAt(i) \ {b} : BaseCostAt(i, c) - BaseCostAt(i, b) > 100)
            => x = b

\* C20 as stated, on rosters without duplicate identifiers: of two candidates
\* of equal cost before the recency penalty, one in the window and one not,
\* the one not in the window is chosen; and a candidate in the window that is
\* clearly better is still chosen
C20_NotInWindowChosen ==
    (Returned /\ NoDuplicates(call.activePlayers)) =>
        \A k \in 1..Len(result.matches) :
            LET i == PlaceOf(result.matches[k].player1)
                x == PlaceOf(result.matches[k].player2)
            IN  /\ \A b, c \in CandidatesAt(i) :
                       (/\ BaseCostAt(i, b) = BaseCostAt(i, c)
                        /\ InWindowAt(i, b)
                        /\ ~ InWindowAt(i, c))
                           => x = c
                /\ ClearlyBetterStillChosen(i, x)

\* C20, amended: of two such candidates the one in the window is not chosen,
\* and the one not in the window is chosen unless a third candidate costs
\* less, or costs the same and comes earlier in the processing order; and a
\* candidate in the window that is clearly better is still chosen
C20_InWindowLosesTie ==
    (Returned /\ NoDuplicates(call.activePlayers)) =>
        \A k \in 1..Len(result.matches) :
            LET i == PlaceOf(result.matches[k].player1)
                x == PlaceOf(result.matches[k].player2)
            IN  /\ \A b, c \in CandidatesAt(i) :
                       (/\ BaseCostAt(i, b) = BaseCostAt(i, c)
                        /\ InWindowAt(i, b)
                        /\ ~ InWindowAt(i, c))
                           => /\ x # b
                              /\ (\A d \in CandidatesAt(i) \ {b, c} :
                                      \/ CostAt(i, d) > CostAt(i, c)
                                      \/ CostAt(i, d) = CostAt(i, c) /\ d > c)
                                     => x = c
                /\ ClearlyBetterStillChosen(i, x)

\* the first player has three candidates; the second and the fourth in the
\* processing order cost the same before the recency penalty, only the second
\* is in the window, the third costs more, and the fourth is chosen
C20_Witness ==
    /\ Returned
    /\ NoDuplicates(call.activePlayers)
    /\ Len(ProcessingOrder) = 4
    /\ BaseCostAt(1, 2) = BaseCostAt(1, 4)
    /\ InWindowAt(1, 2)
    /\ ~ InWindowAt(1, 4)
    /\ CostAt(1, 3) > CostAt(1, 4)
    /\ \E k \in 1..Len(result.matches) :
           /\ PlaceOf(result.matches[k].player1) = 1
           /\ PlaceOf(result.matches[k].player2) = 4

\* the pairs of players of the returned matches, each as a set
ReturnedPairs ==
    {{result.matches[k].player1, result.matches[k].player2} :
        k \in 1..Len(result.matches)}

\* C19: A (ordinal 20), B (18), C (2) and D (0) with equal sigma, an empty
\* history and no previous unmatched player are matched as {A, B} and {C, D},
\* with no unmatched player
C19_ScenarioClosestPairs ==
    (/\ Returned
     /\ Range(call.activePlayers) = {"A", "B", "C", "D"}
     /\ Len(call.activePlayers) = 4
     /\ \A i \in 1..4 :
            /\ call.activePlayerRatings[i].ordinal
                   = ScenarioOrdinals[call.activePlayerRatings[i].player]
            /\ call.activePlayerRatings[i].sigma = call.activePlayerRatings[1].sigma
     /\ call.matchHistory.matches = <<>>
     /\ call.previouslyUnmatched = <<>>)
        => /\ Len(result.matches) = 2
           /\ ReturnedPairs = {{"A", "B"}, {"C", "D"}}
           /\ result.unmatchedPlayers = <<>>

\* the roster came as D, C, B, A with sigma 2 and the first round returned
\* A with B, then C with D
C19_Witness ==
    /\ Returned
    /\ call.activePlayers = <<"D", "C", "B", "A">>
    /\ call.activePlayerRatings[1].sigma = 24
    /\ call.activePlayerRatings[4].ordinal = 240
    /\ call.matchHistory.matches = <<>>
    /\ call.previouslyUnmatched = <<>>
    /\ Len(result.matches) = 2
    /\ result.matches[1].player1 = "A" /\ result.matches[1].player2 = "B"
    /\ result.matches[2].player1 = "C" /\ result.matches[2].player2 = "D"
    /\ result.unmatchedPlayers = <<>>

\* the ordinal the call used for an active player
ActiveOrdinal(name) ==
    call.activePlayerRatings[CHOOSE i \in 1..Len(call.activePlayerRatings) :
                                 call.activePlayerRatings[i].player = name].ordinal

\* C21: the returned matches are in non-increasing order of averageSkill, and
\* averageSkill is the mean of the ordinals of the two players
C21_MatchesByAverageSkill ==
    Returned =>
        /\ \A k \in 1..(Len(result.matches) - 1) :
               result.matches[k].averageSkill >= result.matches[k + 1].averageSkill
        /\ \A k \in 1..Len(result.matches) :
               2 * result.matches[k].averageSkill
                   = ActiveOrdinal(result.matches[k].player1)
                         + ActiveOrdinal(result.matches[k].player2)

\* the match the greedy loop made first, that of the first player in the
\* processing order, has the lower average and is returned second
C21_Witness ==
    /\ Returned
    /\ NoDuplicates(call.activePlayers)
    /\ Len(result.matches) = 2
    /\ PlaceOf(result.matches[2].player1) = 1
    /\ result.matches[1].averageSkill > result.matches[2].averageSkill

\* C23: a round whose roster holds a duplicate identifier is aborted: no
\* match list is returned and no round is saved.
C23_DuplicateRosterAborts ==
    ~NoDuplicates(activePlayers) => (result = NoResult /\ rounds = 0)

\* what the code does with a duplicate identifier: the call returns, and each
\* entry of the roster is given a place of its own
DuplicateRosterAccepted ==
    (Returned /\ ~NoDuplicates(activePlayers)) =>
        2 * Len(result.matches) + Len(result.unmatchedPlayers) = Len(activePlayers)

\* the roster entries that have no stored rating
UnratedPlayers == {p \in Range(call.activePlayers) : ~HasRating(ranks, p)}

\* C25: every identifier of the active roster that has no stored rating takes
\* part in the round with the default rating (prior mu and sigma, ordinal 0):
\* it is matched or is the sit-out player, never dropped from the round.
C25_UnratedPlayersTakePart ==
    Returned =>
        \A p \in UnratedPlayers :
            /\ \E i \in 1..Len(call.activePlayerRatings) :
                   call.activePlayerRatings[i]
                       = [player |-> p, mu |-> DefaultMu, sigma |-> DefaultSigma,
                          ordinal |-> 0]
            /\ p \in MatchedPlayers \cup Range(result.unmatchedPlayers)

\* the earlier engine leaves the unrated players out and still counts them
UnratedPlayersDropped ==
    Returned =>
        /\ UnratedPlayers \cap (MatchedPlayers \cup Range(result.unmatchedPlayers)) = {}
        /\ result.totalActivePlayers = Len(call.activePlayers)

\* C26: the previous-sit-out value a call uses is the unmatched output of the
\* most recently saved round (empty when that round had an even roster or no
\* round was saved); only saving a round changes matches.json, and it then
\* holds the result of that round; the sit-out choice depends on the ratings of
\* this round and on that value alone.
C26_PreviousSitOutIsLastSaved ==
    [][ /\ call'.previouslyUnmatched
               = (IF matchesFile = Missing THEN <<>> ELSE matchesFile.unmatchedPlayers)
        /\ (matchesFile' # matchesFile) => rounds' = rounds + 1
        /\ (rounds' = rounds + 1) => matchesFile' = result'
        /\ result'.unmatchedPlayers
               = UnmatchedPlayersOf(call'.activePlayerRatings,
                                    call'.previouslyUnmatched) ]_vars

\* the second saved round of an odd roster used the sit-out of the first and
\* left somebody else out
C26_Witness ==
    /\ Returned
    /\ rounds = 2
    /\ matchesFile = result
    /\ Len(call.previouslyUnmatched) = 1
    /\ Len(result.unmatchedPlayers) = 1
    /\ result.unmatchedPlayers # call.previouslyUnmatched

\* C28: every returned match has skillDifference = |ordinal1 - ordinal2| >= 0,
\* averageSkill = (ordinal1 + ordinal2) / 2 and confidence
\* = 1 / ((sigma1 + sigma2) / 2) > 0 (in thousandths: 24000 over the sum of the
\* two sigmas in twelfths), for the ratings the call gave its two players.
C28_MatchFields ==
    Returned =>
        \A k \in 1..Len(result.matches) :
            LET m  == result.matches[k]
                o1 == ActiveOrdinal(m.player1)
                o2 == ActiveOrdinal(m.player2)
                s1 == ActiveSigma(m.player1)
                s2 == ActiveSigma(m.player2)
            IN  /\ m.skillDifference = (IF o1 >= o2 THEN o1 - o2 ELSE o2 - o1)
                /\ m.skillDifference >= 0
                /\ 2 * m.averageSkill = o1 + o2
                /\ s1 > 0 /\ s2 > 0
                /\ m.confidence = 24000 \div (s1 + s2)
                /\ m.confidence > 0

\* a match of a rated and an unrated player: ordinals 3 and 0, sigmas 8 and
\* 25/3
C28_Witness ==
    /\ Returned
    /\ NoDuplicates(call.activePlayers)
    /\ \E k \in 1..Len(result.matches) :
           /\ ActiveSigma(result.matches[k].player1) = 96
           /\ ActiveSigma(result.matches[k].player2) = DefaultSigma
           /\ result.matches[k].skillDifference = 36
           /\ result.matches[k].averageSkill = 18
           /\ result.matches[k].confidence = 122

\* the players of the match log processMatches ran on
LoggedPlayers ==
    {call.matchData[k].winner : k \in 1..Len(call.matchData)}
        \cup {call.matchData[k].loser : k \in 1..Len(call.matchData)}

\* C29: processMatches writes results whose players are in non-increasing
\* ordinal order and hold every winner and loser of the match log exactly once,
\* with totalMatches the number of log entries.
C29_RanksSortedAndComplete ==
    Returned =>
        /\ \A k \in 1..(Len(result.players) - 1) :
               result.players[k].ordinal >= result.players[k + 1].ordinal
        /\ {result.players[k].player : k \in 1..Len(result.players)} = LoggedPlayers
        /\ Len(result.players) = Cardinality(LoggedPlayers)
        /\ result.totalMatches = Len(call.matchData)
        /\ ranks = result.players

\* a log of two matches among three players: the winner of the second match
\* comes first although the Map holds the winner of the first before it
C29_Witness ==
    /\ Returned
    /\ Len(call.matchData) = 2
    /\ Len(result.players) = 3
    /\ call.matchData[1].winner # call.matchData[2].winner
    /\ result.players[1].player = call.matchData[2].winner
    /\ result.players[1].ordinal > result.players[2].ordinal
    /\ result.players[2].ordinal > result.players[3].ordinal

\* the original indices of the two players of the k-th pair the loop formed
PairIndices(c, k) ==
    {c.sortedPlayers[c.pairs[k][1]].originalIndex,
     c.sortedPlayers[c.pairs[k][2]].originalIndex}

\* C31: the greedy pass never backtracks.  In every step of the loop the set
\* of paired players only grows, the matches made so far stay as they are, no
\* player that was already paired is offered as a candidate or paired again,
\* each pair adds exactly its two players to the paired set, and the matches
\* returned at the end are exactly the matches the steps made.
C31_NoBacktracking ==
    [][ IF call = NoResult THEN TRUE
        ELSE /\ call.paired \subseteq call'.paired
             /\ Len(call.matches) <= Len(call'.matches)
             /\ SubSeq(call'.matches, 1, Len(call.matches)) = call.matches
             /\ SubSeq(call'.pairs, 1, Len(call.pairs)) = call.pairs
             /\ call'.offered \cap call.paired = {}
             /\ Len(call'.pairs) > Len(call.pairs) =>
                    /\ Len(call'.pairs) = Len(call.pairs) + 1
                    /\ PairIndices(call', Len(call'.pairs)) \cap call.paired = {}
                    /\ call'.paired
                           = call.paired \cup PairIndices(call', Len(call'.pairs))
                    /\ Cardinality(call'.paired) = Cardinality(call.paired) + 2
                    /\ LET m == call'.matches[Len(call'.matches)]
                           p == call'.pairs[Len(call'.pairs)]
                       IN  /\ m.player1 = call.sortedPlayers[p[1]].player.player
                           /\ m.player2 = call.sortedPlayers[p[2]].player.player
             /\ call'.pc = "done" =>
                    /\ Len(result'.matches) = Len(call.matches)
                    /\ Range(result'.matches) = Range(call.matches)
                    /\ result'.matches
                           = createMatchmaking(activePlayers, ranks, matchesFile,
                                               historyFile).matches ]_vars

\* the first player was paired with the third, so the second player's search
\* passed over the third and took the fourth; both matches were returned
C31_Witness ==
    /\ IF call = NoResult THEN FALSE ELSE call.pc = "done"
    /\ call.pairs = << <<1, 3>>, <<2, 4>> >>
    /\ Len(result.matches) = 2

SavedMatches(file) == IF file = Missing THEN <<>> ELSE file.matches

\* C35: after a saved round of at most lookbackRounds x 15 matches, every pair
\* of that round is in the stored history with the round's timestamp, and the
\* call of the next round finds hasRecentMatch true for the pair, in either
\* order, and has the recency penalty in the pair's cost
C35_SavedPairsPenalisedNextRound ==
    [][ LET saved   == SavedMatches(matchesFile)
            history == loadMatchHistory(historyFile)
            tiers   == createSkillGroups(call'.activePlayerRatings)
            at(name) ==
                call'.activePlayerRatings[
                    CHOOSE i \in 1..Len(call'.activePlayerRatings) :
                        call'.activePlayerRatings[i].player = name]
        IN  (Len(saved) <= history.lookbackRounds * MatchesPerRound) =>
                \A k \in 1..Len(saved) :
                    /\ \E e \in 1..Len(history.matches) :
                           /\ history.matches[e].player1 = saved[k].player1
                           /\ history.matches[e].player2 = saved[k].player2
                           /\ history.matches[e].timestamp = rounds
                    /\ call'.matchHistory = history
                    /\ hasRecentMatch(saved[k].player1, saved[k].player2,
                                      call'.matchHistory)
                    /\ hasRecentMatch(saved[k].player2, saved[k].player1,
                                      call'.matchHistory)
                    /\ Cost(at(saved[k].player1), at(saved[k].player2), tiers,
                            call'.matchHistory)
                           = (1000 - predictDraw(at(saved[k].player1),
                                                 at(saved[k].player2)))
                                 + GroupPenalty(at(saved[k].player1),
                                                at(saved[k].player2), tiers)
                                 + RECENT_MATCH_PENALTY ]_vars

\* the second saved round of four players on a lookback of one round: the
\* history holds the two pairs of the first round behind the two of the
\* second, and no pair of the first round was matched again
C35_Witness ==
    /\ rounds = 2
    /\ matchesFile = result
    /\ Len(activePlayers) = 4
    /\ NoDuplicates(activePlayers)
    /\ loadMatchHistory(historyFile).lookbackRounds = 1
    /\ Len(loadMatchHistory(historyFile).matches) = 4
    /\ \A k \in 1..2 : loadMatchHistory(historyFile).matches[k].timestamp = 2
    /\ \A k \in 3..4 : loadMatchHistory(historyFile).matches[k].timestamp = 1
    /\ \A k \in 1..2, e \in 3..4 :
           {result.matches[k].player1, result.matches[k].player2}
               # {loadMatchHistory(historyFile).matches[e].player1,
                  loadMatchHistory(historyFile).matches[e].player2}

\* C36: on an odd roster of at least 3 entries that holds more than one
\* player, with unchanged ratings, each saved round has one sit-out player,
\* the sit-out player of round N + 2 is that of round N, and from the second
\* round on exactly two players have sat out
C36_SitOutAlternates ==
    (/\ Len(activePlayers) % 2 = 1
     /\ Len(activePlayers) >= 3
     /\ Cardinality(Range(activePlayers)) >= 2) =>
        /\ \A n \in 1..Len(SitOuts) : Len(SitOuts[n]) = 1
        /\ \A n \in 1..(Len(SitOuts) - 2) : SitOuts[n + 2] = SitOuts[n]
        /\ \A n \in 1..(Len(SitOuts) - 1) : SitOuts[n + 1] # SitOuts[n]
        /\ Len(SitOuts) >= 2 => Cardinality(Range(SitOuts)) = 2

\* four rounds of three players X, Y, Z: the most uncertain one sits out the
\* first and the third round, the next most uncertain the second and the
\* fourth, and the third player never
C36_Witness ==
    /\ rounds = MaxSavedRounds
    /\ Len(SitOuts) = 4
    /\ Len(activePlayers) = 3
    /\ NoDuplicates(activePlayers)
    /\ SitOuts[1] = SitOuts[3]
    /\ SitOuts[2] = SitOuts[4]
    /\ SitOuts[1] # SitOuts[2]
    /\ \E z \in Range(activePlayers) : \A n \in 1..4 : SitOuts[n] # <<z>>

\* the place of an active player in the roster
RosterPlace(name) ==
    CHOOSE i \in 1..Len(call.activePlayers) : call.activePlayers[i] = name

\* C37: on a roster without duplicate identifiers the choices are fixed by
\* position: players of equal mu - 3 sigma are processed in roster order; the
\* partner is the candidate of least cost and, among those of that cost, the
\* earliest in the processing order; the sit-out player of an odd roster is
\* the candidate of highest sigma and, among those of that sigma, the earliest
\* in the roster
C37_TiesByPosition ==
    (Returned /\ NoDuplicates(call.activePlayers)) =>
        /\ \A i, j \in 1..Len(ProcessingOrder) :
               (/\ i < j
                /\ Conservative(ProcessingOrder[i]) = Conservative(ProcessingOrder[j]))
                   => RosterPlace(ProcessingOrder[i].player)
                          < RosterPlace(ProcessingOrder[j].player)
        /\ \A k \in 1..Len(result.matches) :
               LET i == PlaceOf(result.matches[k].player1)
                   x == PlaceOf(result.matches[k].player2)
               IN  /\ x \in CandidatesAt(i)
                   /\ \A c \in CandidatesAt(i) :
                          \/ CostAt(i, c) > CostAt(i, x)
                          \/ CostAt(i, c) = CostAt(i, x) /\ x <= c
        /\ OddRoster =>
               /\ Len(result.unmatchedPlayers) = 1
               /\ result.unmatchedPlayers[1] \in SitOutPool
               /\ \A q \in SitOutPool :
                      \/ ActiveSigma(q) < ActiveSigma(result.unmatchedPlayers[1])
                      \/ /\ ActiveSigma(q) = ActiveSigma(result.unmatchedPlayers[1])
                         /\ RosterPlace(result.unmatchedPlayers[1]) <= RosterPlace(q)

\* five players: the sit-out player is not the first of the roster and a later
\* player of the roster is as uncertain; the first player processed passes
\* over a candidate that costs more and takes the earlier of two later
\* candidates of equal least cost
C37_Witness ==
    /\ Returned
    /\ Len(call.activePlayers) = 5
    /\ RosterPlace(result.unmatchedPlayers[1]) > 1
    /\ \E q \in SitOutPool :
           /\ ActiveSigma(q) = ActiveSigma(result.unmatchedPlayers[1])
           /\ RosterPlace(q) > RosterPlace(result.unmatchedPlayers[1])
    /\ \E k \in 1..Len(result.matches) :
           /\ PlaceOf(result.matches[k].player1) = 1
           /\ PlaceOf(result.matches[k].player2) = 3
    /\ CostAt(1, 2) > CostAt(1, 3)
    /\ CostAt(1, 4) = CostAt(1, 3)

\* the player a stored round left unmatched, if the file holds a round
SitOutOf(file) == IF file = Missing THEN {} ELSE Range(file.unmatchedPlayers)

\* C34: over consecutively saved rounds, a player sits out two rounds in a
\* row only if that player is the only active player of the second round
C34_NoSitOutTwiceRunning ==
    [][ (rounds' = rounds + 1) =>
            \A p \in SitOutOf(matchesFile) \cap SitOutOf(matchesFile') :
                Range(activePlayers') = {p} ]_vars

\* the second saved round of three players: the player that sat out the first
\* is the most uncertain and is matched, another one sits out
C34_Witness ==
    /\ rounds = 2
    /\ matchesFile = result
    /\ Len(activePlayers) = 3
    /\ NoDuplicates(activePlayers)
    /\ Len(call.previouslyUnmatched) = 1
    /\ Len(result.unmatchedPlayers) = 1
    /\ call.previouslyUnmatched # result.unmatchedPlayers
    /\ \A q \in Range(activePlayers) \ Range(call.previouslyUnmatched) :
           ActiveSigma(q) < ActiveSigma(call.previouslyUnmatched[1])

RoundSaved == IF call = NoResult THEN FALSE ELSE call.pc = "saved"

\* C22: during one round the Match History Store is read once, at the start of
\* the round, and written once, at the end of the round.
C22_HistoryReadOnceWrittenOnce ==
    RoundSaved => call.historyAccesses = <<"load", "save">>

\* what the round does: the history is loaded at the start, loaded again once
\* matches.json is written, and saved once at the end; both loads give the
\* same history
HistoryLoadedTwiceSavedOnce ==
    RoundSaved =>
        /\ call.historyAccesses = <<"load", "load", "save">>
        /\ call.currentHistory = call.matchHistory

\* the round in progress found no history file, or one that does not parse
NoUsableHistory ==
    IF call = NoResult THEN FALSE
    ELSE call.historyFileAtStart \in {Missing, Corrupt}

\* C24: when the stored history is missing or does not parse, the round runs
\* with an empty recent-pairings window and lookbackRounds 3 (no pair is in the
\* window) and completes normally: every roster entry is placed, and the
\* history saved at the end holds the pairings of this round and nothing else.
C24_MissingHistoryStartsFresh ==
    NoUsableHistory =>
        /\ call.matchHistory = [matches |-> <<>>, lookbackRounds |-> 3]
        /\ \A i, j \in 1..Len(call.activePlayers) :
               ~hasRecentMatch(call.activePlayers[i], call.activePlayers[j],
                               call.matchHistory)
        /\ 2 * Len(result.matches) + Len(result.unmatchedPlayers)
               = Len(call.activePlayers)
        /\ RoundSaved =>
               /\ historyFile.lookbackRounds = 3
               /\ Len(historyFile.matches) = Len(result.matches)
               /\ \A k \in 1..Len(result.matches) :
                      /\ historyFile.matches[k].player1 = result.matches[k].player1
                      /\ historyFile.matches[k].player2 = result.matches[k].player2

\* a round that found a history file that does not parse has paired four
\* players and saved
C24_Witness ==
    /\ RoundSaved
    /\ call.historyFileAtStart = Corrupt
    /\ Len(result.matches) = 2
    /\ Len(historyFile.matches) = 2

-----------------------------------------------------------------------------
(* Properties of the tier builder *)

TiersBuilt == tierOutput # NoResult

\* the places (tier, position) of the output that hold the input entry x
TierSlots(x) ==
    {gk \in UNION {{<<g, k>> : k \in 1..Len(tierOutput.groups[g].players)} :
                      g \in 1..Len(tierOutput.groups)} :
        tierOutput.groups[gk[1]].players[gk[2]] = x}

\* C10: the tiers partition the input, tiers are in descending ordinal order
\* and so are the players of each tier
C10_TierPartition ==
    TiersBuilt =>
        /\ \A i \in 1..Len(tierInput) : Cardinality(TierSlots(tierInput[i])) = 1
        /\ \A g \in 1..Len(tierOutput.groups) :
               Range(tierOutput.groups[g].players) \subseteq Range(tierInput)
        /\ \A g, h \in 1..Len(tierOutput.groups) :
               g < h =>
                   \A a \in Range(tierOutput.groups[g].players),
                      b \in Range(tierOutput.groups[h].players) :
                       a.ordinal >= b.ordinal
        /\ \A g \in 1..Len(tierOutput.groups) :
               \A k, l \in 1..Len(tierOutput.groups[g].players) :
                   k < l => tierOutput.groups[g].players[k].ordinal
                                >= tierOutput.groups[g].players[l].ordinal

\* an input that was not in order came out as a full tier of players of two
\* different ordinals and a second tier
C10_Witness ==
    /\ TiersBuilt
    /\ \E i \in 1..Len(tierInput) - 1 :
           tierInput[i].ordinal < tierInput[i + 1].ordinal
    /\ Len(tierOutput.groups) = 2
    /\ Len(tierOutput.groups[1].players) = MAX_GROUP_SIZE
    /\ tierOutput.groups[1].minOrdinal < tierOutput.groups[1].maxOrdinal

\* C11: every returned tier holds at least one and at most MAX_GROUP_SIZE (6)
\* players, and an empty input gives an empty tier list
C11_TierSize ==
    TiersBuilt =>
        /\ \A g \in 1..Len(tierOutput.groups) :
               /\ Len(tierOutput.groups[g].players) >= 1
               /\ Len(tierOutput.groups[g].players) <= 6
        /\ (tierInput = <<>>) => (tierOutput.groups = <<>>)

\* seven players within one tier width came out as a full tier and a tier of
\* one: the second tier was started by the size limit, not by the range
C11_Witness ==
    /\ TiersBuilt
    /\ Len(tierInput) = MAX_GROUP_SIZE + 1
    /\ Len(tierOutput.groups) = 2
    /\ Len(tierOutput.groups[1].players) = MAX_GROUP_SIZE
    /\ Len(tierOutput.groups[2].players) = 1
    /\ tierOutput.groups[1].maxOrdinal - tierOutput.groups[2].minOrdinal
           <= adaptiveMaxRange(tierOutput.groups[1].maxOrdinal)

\* the width C12 gives a tier by the ordinal of its first player: 2.0 above 15,
\* 2.5 above 5 and up to 15, 3.0 otherwise
ClaimedWidth(startOrdinal) ==
    IF startOrdinal > 15 * 12 THEN 2 * 12
    ELSE IF startOrdinal > 5 * 12 THEN 30
    ELSE 3 * 12

\* C12: the width of a tier is the claimed one and never grows with the
\* starting ordinal; a player after the first of a tier is within the width of
\* the first and joined fewer than 6 players; the first player of a later tier
\* was beyond the width of the tier before it, or that tier held 6 players
C12_AdaptiveWidth ==
    TiersBuilt =>
        /\ \A i \in 1..Len(tierInput) :
               adaptiveMaxRange(tierInput[i].ordinal)
                   = ClaimedWidth(tierInput[i].ordinal)
        /\ \A i, j \in 1..Len(tierInput) :
               tierInput[i].ordinal <= tierInput[j].ordinal
                   => adaptiveMaxRange(tierInput[j].ordinal)
                          <= adaptiveMaxRange(tierInput[i].ordinal)
        /\ \A g \in 1..Len(tierOutput.groups) :
               \A k \in 2..Len(tierOutput.groups[g].players) :
                   /\ tierOutput.groups[g].players[1].ordinal
                          - tierOutput.groups[g].players[k].ordinal
                              <= ClaimedWidth(tierOutput.groups[g].players[1].ordinal)
                   /\ k - 1 < 6
        /\ \A g \in 2..Len(tierOutput.groups) :
               ~ (/\ tierOutput.groups[g - 1].players[1].ordinal
                         - tierOutput.groups[g].players[1].ordinal
                             <= ClaimedWidth(tierOutput.groups[g - 1].players[1].ordinal)
                  /\ Len(tierOutput.groups[g - 1].players) < 6)

\* tiers that span exactly their width: one starting above 15, one starting at
\* 15 and one starting at 5; and a tier closed by the range before it was full
C12_Witness ==
    /\ TiersBuilt
    /\ \E g \in 1..Len(tierOutput.groups) :
           /\ tierOutput.groups[g].maxOrdinal > EliteOrdinal
           /\ tierOutput.groups[g].maxOrdinal - tierOutput.groups[g].minOrdinal
                  = EliteRange
    /\ \E g \in 1..Len(tierOutput.groups) :
           /\ tierOutput.groups[g].maxOrdinal = EliteOrdinal
           /\ tierOutput.groups[g].maxOrdinal - tierOutput.groups[g].minOrdinal
                  = AdvancedRange
    /\ \E g \in 1..Len(tierOutput.groups) :
           /\ tierOutput.groups[g].maxOrdinal = AdvancedOrdinal
           /\ tierOutput.groups[g].maxOrdinal - tierOutput.groups[g].minOrdinal
                  = MAX_GROUP_RANGE
    /\ \E g \in 1..Len(tierOutput.groups) - 1 :
           Len(tierOutput.groups[g].players) < MAX_GROUP_SIZE

-----------------------------------------------------------------------------
(* Properties of the match history store *)

Recorded == call # NoResult

\* the history as it is on disk after the rounds recorded so far
StoredHistory == loadMatchHistory(historyFile)

\* the number of entries the history keeps: lookbackRounds x 15
Window == StoredHistory.lookbackRounds * 15

\* every round so far recorded one pairing
OnePairingEach ==
    \A t \in 1..Len(RecordedRounds) : Len(RecordedRounds[t]) = 1

\* the two players of the pairing of round t, when it recorded one pairing
PairOfRound(t) == {RecordedRounds[t][1].player1, RecordedRounds[t][1].player2}

\* C13: once more than lookbackRounds x 15 rounds of one pairing each are
\* recorded, the entries of the rounds before the last lookbackRounds x 15
\* are gone from the history, and hasRecentMatch is false for the pairing of
\* such a round that no later round recorded again
C13_HistoryPruning ==
    (Recorded /\ OnePairingEach /\ rounds > Window) =>
        \A t \in 1..(rounds - Window) :
            /\ \A k \in 1..Len(StoredHistory.matches) :
                   StoredHistory.matches[k].timestamp # t
            /\ (\A u \in (t + 1)..rounds : PairOfRound(u) # PairOfRound(t))
                   => /\ ~ hasRecentMatch(RecordedRounds[t][1].player1,
                                          RecordedRounds[t][1].player2, StoredHistory)
                      /\ ~ hasRecentMatch(RecordedRounds[t][1].player2,
                                          RecordedRounds[t][1].player1, StoredHistory)

\* with no history file to start from (3 lookback rounds), the pairing of the
\* first round is forgotten after 45 more rounds that each recorded another
\* pairing
C13_Witness ==
    /\ Recorded
    /\ OnePairingEach
    /\ StoredHistory.lookbackRounds = DefaultLookbackRounds
    /\ rounds = Window + 1
    /\ \A u \in 2..rounds : PairOfRound(u) # PairOfRound(1)
    /\ Len(StoredHistory.matches) = Window
    /\ ~ hasRecentMatch(RecordedRounds[1][1].player1,
                        RecordedRounds[1][1].player2, StoredHistory)

\* C14: what updateMatchHistory returned is the new pairings in match order,
\* then the entries the history had, in their order, up to the first
\* lookbackRounds x 15 places; the stored history never holds more than that
\* and its timestamps never rise from front to back
C14_PrependAndTruncate ==
    Recorded =>
        LET new    == call.newMatches
            old    == call.history.matches
            out    == result.matches
            window == call.history.lookbackRounds * 15
        IN  /\ Len(out) = (IF Len(new) + Len(old) < window
                           THEN Len(new) + Len(old) ELSE window)
            /\ \A k \in 1..Len(out) :
                   IF k <= Len(new)
                   THEN /\ out[k].player1 = new[k].player1
                        /\ out[k].player2 = new[k].player2
                        /\ out[k].timestamp = rounds
                   ELSE out[k] = old[k - Len(new)]
            /\ result.lookbackRounds = call.history.lookbackRounds
            /\ historyFile = result
            /\ Len(StoredHistory.matches) <= Window
            /\ \A k \in 1..(Len(StoredHistory.matches) - 1) :
                   StoredHistory.matches[k].timestamp
                       >= StoredHistory.matches[k + 1].timestamp

\* a round of two pairings was recorded on a full history of 45 entries: the
\* two are in front, in match order, and the two oldest entries are gone
C14_Witness ==
    /\ Recorded
    /\ Len(call.newMatches) = 2
    /\ Len(call.history.matches) = DefaultLookbackRounds * MatchesPerRound
    /\ Len(result.matches) = DefaultLookbackRounds * MatchesPerRound
    /\ result.matches[1].player1 = call.newMatches[1].player1
    /\ result.matches[2].player1 = call.newMatches[2].player1
    /\ result.matches[1].player1 # result.matches[2].player1
    /\ result.matches[3] = call.history.matches[1]

\* the identifiers of the recorded pairings
HistoryPlayers == {"A", "B", "C", "D"}

\* C15: hasRecentMatch(x, y) is true exactly when some retained entry, at any
\* place, holds x and y in either order; it is the same for (y, x)
C15_HasRecentMatch ==
    Recorded =>
        \A x, y \in HistoryPlayers :
            /\ hasRecentMatch(x, y, StoredHistory)
                   <=> \E k \in 1..Len(StoredHistory.matches) :
                           {StoredHistory.matches[k].player1,
                            StoredHistory.matches[k].player2} = {x, y}
            /\ hasRecentMatch(x, y, StoredHistory)
                   <=> hasRecentMatch(y, x, StoredHistory)

\* the only retained entry of A and B is the oldest of a full history, and it
\* is stored as (B, A): hasRecentMatch("A", "B") is true
C15_Witness ==
    /\ Recorded
    /\ Len(StoredHistory.matches) = Window
    /\ StoredHistory.matches[Window].player1 = "B"
    /\ StoredHistory.matches[Window].player2 = "A"
    /\ \A k \in 1..(Window - 1) :
           {StoredHistory.matches[k].player1, StoredHistory.matches[k].player2}
               # {"A", "B"}
    /\ hasRecentMatch("A", "B", StoredHistory)

-----------------------------------------------------------------------------
(* Properties of the pairing cost *)

CostComputed == call # NoResult

\* the tiers of the list the cost was computed for
CostTiers == createSkillGroups(tierInput)

\* the place in the tier list of the tier that holds the player
TierIndexOf(name) ==
    CHOOSE g \in 1..Len(CostTiers) :
        \E k \in 1..Len(CostTiers[g].players) : CostTiers[g].players[k].player = name

\* the tiers between the two players of the computation
CostGap == Abs(TierIndexOf(call.player1.player) - TierIndexOf(call.player2.player))

\* the table of C16, in thousandths
ClaimedTierPenalty(gap) ==
    IF gap = 0 THEN 0
    ELSE IF gap = 1 THEN 150
    ELSE IF gap = 2 THEN 350
    ELSE IF gap = 3 THEN 600
    ELSE 800 + 200 * (gap - 4)

\* some entry of the history holds the two players of the computation, in
\* either order
PairInWindow ==
    \E k \in 1..Len(StoredHistory.matches) :
        {StoredHistory.matches[k].player1, StoredHistory.matches[k].player2}
            = {call.player1.player, call.player2.player}

\* C16: the tier-distance penalty in the cost of a pair is the table's value
\* for the gap between the two tier indices, and the penalty rises strictly
\* with the gap
C16_TierDistancePenalty ==
    (CostComputed /\ call.engine = "tier-aware") =>
        /\ call.crossGroupPenalty = ClaimedTierPenalty(CostGap)
        /\ call.cost - (1000 - call.drawProbability)
               - (IF call.recentLogged THEN RECENT_MATCH_PENALTY ELSE 0)
                   = ClaimedTierPenalty(CostGap)
        /\ 0 < crossGroupPenalty(1)
        /\ \A g \in 1..(Len(CostTiers) - 1) :
               crossGroupPenalty(g) < crossGroupPenalty(g + 1)

\* two players five tiers apart: the penalty is 1.0
C16_Witness ==
    /\ CostComputed
    /\ call.engine = "tier-aware"
    /\ CostGap = 5
    /\ call.crossGroupPenalty = 1000
    /\ call.cost = (1000 - call.drawProbability) + 1000

EngineCost(p1, p2) ==
    IF call.engine = "tier-aware" THEN Cost(p1, p2, CostTiers, StoredHistory)
    ELSE NaiveCost(p1, p2, StoredHistory)

\* C27: the pairing cost is not negative, is the same for (a, b) and (b, a),
\* and depends on nothing but the two ratings, the two tiers and the history:
\* two players of the list with the same two ratings, the same tier gap and the
\* same standing in the window have the same cost.
C27_CostNonNegativeSymmetric ==
    CostComputed =>
        LET tiers   == createSkillGroups(tierInput)
            history == loadMatchHistory(historyFile)
            tierOf  == [k \in 1..Len(tierInput) |->
                           CHOOSE g \in 1..Len(tiers) :
                               \E n \in 1..Len(tiers[g].players) :
                                   tiers[g].players[n].player = tierInput[k].player]
            at      == [name \in {tierInput[k].player : k \in 1..Len(tierInput)} |->
                           CHOOSE k \in 1..Len(tierInput) : tierInput[k].player = name]
            gap     == Abs(tierOf[at[call.player1.player]]
                               - tierOf[at[call.player2.player]])
            costOf(p1, p2) ==
                IF call.engine = "tier-aware" THEN Cost(p1, p2, tiers, history)
                ELSE NaiveCost(p1, p2, history)
        IN  /\ call.cost >= 0
            /\ costOf(call.player2, call.player1) = call.cost
            /\ \A i, j \in 1..Len(tierInput) :
                   ( /\ i # j
                     /\ {<<tierInput[i].mu, tierInput[i].sigma>>,
                         <<tierInput[j].mu, tierInput[j].sigma>>}
                            = {<<call.player1.mu, call.player1.sigma>>,
                               <<call.player2.mu, call.player2.sigma>>}
                     /\ Abs(tierOf[i] - tierOf[j]) = gap
                     /\ hasRecentMatch(tierInput[i].player, tierInput[j].player, history)
                            <=> PairInWindow )
                       => costOf(tierInput[i], tierInput[j]) = call.cost

\* the cost of two players two or more tiers apart that are in the window
C27_Witness ==
    /\ CostComputed
    /\ call.engine = "tier-aware"
    /\ CostGap >= 2
    /\ PairInWindow
    /\ call.cost > 1000
    /\ EngineCost(call.player2, call.player1) = call.cost

\* the base term of the cost of two players of the list
BaseTerm(p1, p2) == 1000 - predictDraw(p1, p2)

\* the two players have the uncertainties of the computed pair
SameUncertainties(p1, p2) ==
    \/ p1.sigma = call.player1.sigma /\ p2.sigma = call.player2.sigma
    \/ p1.sigma = call.player2.sigma /\ p2.sigma = call.player1.sigma

-----------------------------------------------------------------------------
(* Properties of the tier labels *)

\* the label the claim gives tier g, counted from 1
ClaimedLabel(g) ==
    IF g <= 10
    THEN << << "UEE Navy Vanguard", "Fleet Commander", "Wing Commander",
               "Squadron Ace", "Strike Pilot", "Mercenary Pilot",
               "Freelancer Pilot", "Civilian Pilot", "Rookie Pilot",
               "Cadet" >>[g] >>
    ELSE <<"Civilian Pilot", g - 10>>

\* C32: tier k is labelled with the k-th name of the list of ten, the tiers
\* past the list with numbers from 1; the labels and the names of one tier
\* list are pairwise distinct; so the cost function, which finds a tier by its
\* name, finds for each player the tier that holds the player, and the tier
\* penalty is 0 exactly when the two players are in one tier.
C32_TierLabels ==
    /\ TiersBuilt =>
           /\ \A g \in 1..Len(tierOutput.groups) :
                  tierOutput.groups[g].name[1] = ClaimedLabel(g)
           /\ \A g, h \in 1..Len(tierOutput.groups) :
                  g # h => /\ tierOutput.groups[g].name[1] # tierOutput.groups[h].name[1]
                           /\ tierOutput.groups[g].name # tierOutput.groups[h].name
    /\ (TiersBuilt /\ CostComputed) =>
           LET tiers  == tierOutput.groups
               tierOf == [name \in {call.player1.player, call.player2.player} |->
                             CHOOSE g \in 1..Len(tiers) :
                                 \E n \in 1..Len(tiers[g].players) :
                                     tiers[g].players[n].player = name]
           IN  /\ \A name \in DOMAIN tierOf :
                      FindGroupIndex(tiers, tiers[getPlayerGroup(name, tiers)].name)
                          = tierOf[name]
               /\ (call.crossGroupPenalty = 0)
                      <=> (tierOf[call.player1.player] = tierOf[call.player2.player])

\* a ladder of twelve tiers: the eighth is "Civilian Pilot", the eleventh and
\* twelfth are "Civilian Pilot 1" and "Civilian Pilot 2", and the cost of their
\* two players has the penalty of adjacent tiers
C32_Witness ==
    /\ TiersBuilt
    /\ CostComputed
    /\ Len(tierOutput.groups) = 12
    /\ tierOutput.groups[8].name[1] = <<"Civilian Pilot">>
    /\ tierOutput.groups[11].name[1] = <<"Civilian Pilot", 1>>
    /\ tierOutput.groups[12].name[1] = <<"Civilian Pilot", 2>>
    /\ call.player1 = tierOutput.groups[11].players[1]
    /\ call.player2 = tierOutput.groups[12].players[1]
    /\ call.crossGroupPenalty = 150

====
